---- MODULE Spec2Model ----
(***************************************************************************)
(* Model of the runestick virtual machine (crates/runestick/src/vm/mod.rs) *)
(* and of the Task harness that drives it.                                 *)
(*                                                                         *)
(* The compilation unit of a task is an input: the instruction found at an *)
(* instruction pointer is chosen when it is first fetched.  A task fetches *)
(* each instruction pointer at most once (the bound on its units), so      *)
(* every run of a task is the run of one read-only unit.                   *)
(***************************************************************************)
EXTENDS Integers, Sequences, FiniteSets, TLC

VARIABLES
    vm,        \* the Vm struct: ip, stack, stack_top, exited, call_frames, branch
    fetched,   \* the instruction pointers the task's unit was fetched at
    futures,   \* the shared cells of the Value::Future values
    pc,        \* position of the driver of the Task
    limit,     \* the `limit` argument of the running Vm::run_for
    ret,       \* what the last Task call returned
    last,      \* history: the last iteration of the instruction loop
    shadow,    \* history: what the vm was at each Call that pushed a frame
    h,         \* history: counters of the current Task call
    levels,    \* the indexer: the levels of an IndexScopes
    guards,    \* the indexer: the IndexScopeGuards alive
    stream,    \* a Stream: execution and first
    done       \* history: the last call on the IndexScopes or on the Stream

\* the indexer and the stream, which no Vm or Task operation touches
hostvars == <<levels, guards, stream, done>>

\* the Vm and its Task, which no indexer or stream operation touches
taskvars == <<vm, fetched, futures, pc, limit, ret, last, shadow, h>>

vars == <<vm, fetched, futures, pc, limit, ret, last, shadow, h,
          levels, guards, stream, done>>

\* ------------------------------------------------------------------ bounds
UnitLen == 7
MaxStack == 3
MaxFrames == 2
MaxFutures == 3
IntBits == 3       \* width of Value::Integer (i64 in the source)
MaxOperands == 2   \* stack depth of the units of arithmetic and comparison
MaxLen == 2        \* length of the vectors and tuples the host passes
MaxInsts == 2      \* constructor instructions a task runs
MaxLevels == 3     \* levels of an IndexScopes
MaxLocals == 2     \* declarations the levels of an IndexScopes hold

\* ------------------------------------------------------------------ values
NoErr == "Ok"

Val(t, n) == [t |-> t, n |-> n]
ValueUnit == Val("Unit", 0)
ValueInteger(n) == Val("Integer", n)
ValueFuture(id) == Val("Future", id)

ValueBool(b) == Val("Bool", IF b THEN 1 ELSE 0)

\* A text is a sequence of characters.  StaticString is the handle of an
\* interned string of the unit, named by its slot; String owns its text.
ValueStaticString(slot) == Val("StaticString", slot)
ValueString(text) == [t |-> "String", text |-> text]

\* Vec and Tuple hold their items, Object its entries in insertion order.
ValueVec(items) == [t |-> "Vec", items |-> items]
ValueTuple(items) == [t |-> "Tuple", items |-> items]
ValueObject(entries) == [t |-> "Object", entries |-> entries]

\* The interned strings of the unit, slot 0 first.
StaticStrings == << <<"a">>, <<"b">>, <<"a", "b">> >>

\* The object key tuples of the unit, slot 0 first.
StaticObjectKeys == << << <<"a">>, <<"b">> >>, << <<"b">> >>, << >> >>

lookup_object_keys_ok(slot) == slot < Len(StaticObjectKeys)

lookup_object_keys(slot) == StaticObjectKeys[slot + 1]

lookup_string_ok(slot) == slot < Len(StaticStrings)

lookup_string(slot) == StaticStrings[slot + 1]

\* the range of the signed integers of IntBits bits
IntMin == -(2 ^ (IntBits - 1))
IntMax == 2 ^ (IntBits - 1) - 1
Int64 == IntMin..IntMax

None == [some |-> FALSE, v |-> 0]
Some(x) == [some |-> TRUE, v |-> x]

Inst(op, a, b) == [op |-> op, a |-> a, b |-> b]
Unset == Inst("?", 0, 0)

\* The functions of the unit, by hash: UnitFnInfo {signature.args, kind: Offset {offset, call}}.
UnitFunctions ==
    <<[args |-> 0, offset |-> 2, call |-> "Immediate"],
      [args |-> 1, offset |-> 5, call |-> "Immediate"],
      [args |-> 0, offset |-> 0, call |-> "Async"],
      [args |-> 2, offset |-> 3, call |-> "Async"]>>

CompilationUnit_lookup(hash) == UnitFunctions[hash]

\* The value a future resolves to (the return value of its sub-VM).
FutureOutput(id) == ValueInteger(10 + id)

\* ------------------------------------------------------------------ Stack
stack_len(v) == Len(v.stack)

stack_push(v, x) == [v EXCEPT !.stack = Append(@, x)]

\* pop fails with a stack error at the frame's watermark
stack_can_pop(v) == Len(v.stack) > v.stack_top

stack_last(v) == v.stack[Len(v.stack)]

stack_pop(v) == [v EXCEPT !.stack = SubSeq(@, 1, Len(@) - 1)]

stack_can_popn(v, n) == Len(v.stack) - v.stack_top >= n

stack_popn(v, n) == [v EXCEPT !.stack = SubSeq(@, 1, Len(@) - n)]

stack_clear(v) == [v EXCEPT !.stack = <<>>, !.stack_top = 0]

\* push_stack_top(args): the new watermark is len - args; the old one is returned
push_stack_top_ok(v, args) == Len(v.stack) >= args

push_stack_top(v, args) == [v EXCEPT !.stack_top = Len(v.stack) - args]

check_stack_top(v) == Len(v.stack) = v.stack_top

\* pop_stack_top(top) fails when values are left above the watermark
pop_stack_top_ok(v) == check_stack_top(v)

pop_stack_top(v, top) == [v EXCEPT !.stack_top = top]

\* ------------------------------------------------------------------ Vm
Vm_new ==
    [ip |-> 0, stack |-> <<>>, stack_top |-> 0, exited |-> FALSE,
     call_frames |-> <<>>, branch |-> None]

\* clear that keeps the call frames
Vm_clear_keeps_frames(v) ==
    [stack_clear(v) EXCEPT !.ip = 0, !.exited = FALSE]

Vm_clear(v) ==
    [stack_clear(v) EXCEPT !.ip = 0, !.exited = FALSE, !.call_frames = <<>>]

\* The result of one operation: the vm it leaves, its error, and update_ip.
R(v, e, u) == [vm |-> v, err |-> e, update_ip |-> u]

modify_ip_ok(v, offset) == v.ip + offset >= 0

modify_ip(v, offset) == [v EXCEPT !.ip = @ + offset]

op_integer(v, number) == R(stack_push(v, ValueInteger(number)), NoErr, TRUE)

op_pop(v) ==
    IF stack_can_pop(v) THEN R(stack_pop(v), NoErr, TRUE)
    ELSE R(v, "StackError", TRUE)

op_popn(v, n) ==
    IF stack_can_popn(v, n) THEN R(stack_popn(v, n), NoErr, TRUE)
    ELSE R(v, "StackError", TRUE)

op_clean(v, n) ==
    IF ~stack_can_pop(v) THEN R(v, "StackError", TRUE)
    ELSE LET value == stack_last(v)
             r == op_popn(stack_pop(v), n)
         IN  IF r.err # NoErr THEN r
             ELSE R(stack_push(r.vm, value), NoErr, TRUE)

op_dup(v) ==
    IF ~stack_can_pop(v) THEN R(v, "StackError", TRUE)
    ELSE R(stack_push(v, stack_last(v)), NoErr, TRUE)

push_call_frame(v, new_ip, args) ==
    IF ~push_stack_top_ok(v, args) THEN R(v, "StackError", TRUE)
    ELSE LET frame == [ip |-> v.ip, stack_top |-> v.stack_top]
             v1 == push_stack_top(v, args)
         IN  R([v1 EXCEPT !.call_frames = Append(@, frame), !.ip = new_ip],
               NoErr, FALSE)

\* pop_call_frame with the result of pop_stack_top dropped
pop_call_frame_unchecked(v) ==
    IF v.call_frames = <<>>
    THEN IF check_stack_top(v) THEN [vm |-> v, err |-> NoErr, last |-> TRUE]
         ELSE [vm |-> v, err |-> "StackError", last |-> FALSE]
    ELSE LET frame == v.call_frames[Len(v.call_frames)]
             v1 == [v EXCEPT !.call_frames = SubSeq(@, 1, Len(@) - 1)]
         IN  [vm |-> [pop_stack_top(v1, frame.stack_top) EXCEPT !.ip = frame.ip],
              err |-> NoErr, last |-> FALSE]

\* pop_call_frame without check_stack_top on the last frame
pop_call_frame_last_unchecked(v) ==
    IF v.call_frames = <<>>
    THEN [vm |-> v, err |-> NoErr, last |-> TRUE]
    ELSE LET frame == v.call_frames[Len(v.call_frames)]
             v1 == [v EXCEPT !.call_frames = SubSeq(@, 1, Len(@) - 1)]
         IN  IF ~pop_stack_top_ok(v1)
             THEN [vm |-> v1, err |-> "StackError", last |-> FALSE]
             ELSE [vm |-> [pop_stack_top(v1, frame.stack_top) EXCEPT !.ip = frame.ip],
                   err |-> NoErr, last |-> FALSE]

\* pop_call_frame: .last is the returned bool
pop_call_frame(v) ==
    IF v.call_frames = <<>>
    THEN IF check_stack_top(v) THEN [vm |-> v, err |-> NoErr, last |-> TRUE]
         ELSE [vm |-> v, err |-> "StackError", last |-> FALSE]
    ELSE LET frame == v.call_frames[Len(v.call_frames)]
             v1 == [v EXCEPT !.call_frames = SubSeq(@, 1, Len(@) - 1)]
         IN  IF ~pop_stack_top_ok(v1)
             THEN [vm |-> v1, err |-> "StackError", last |-> FALSE]
             ELSE [vm |-> [pop_stack_top(v1, frame.stack_top) EXCEPT !.ip = frame.ip],
                   err |-> NoErr, last |-> FALSE]

op_return(v) ==
    IF ~stack_can_pop(v) THEN R(v, "StackError", TRUE)
    ELSE LET return_value == stack_last(v)
             p == pop_call_frame(stack_pop(v))
         IN  IF p.err # NoErr THEN R(p.vm, p.err, TRUE)
             ELSE R(stack_push([p.vm EXCEPT !.exited = p.last], return_value),
                    NoErr, TRUE)

op_return_unit(v) ==
    LET p == pop_call_frame(v)
    IN  IF p.err # NoErr THEN R(p.vm, p.err, TRUE)
        ELSE R(stack_push([p.vm EXCEPT !.exited = p.last], ValueUnit), NoErr, TRUE)

\* `for _ in 0..n { out.push(self.stack.pop()?) }`: the values in pop order
RECURSIVE pop_loop(_, _, _)
pop_loop(v, n, out) ==
    IF n = 0 THEN [vm |-> v, err |-> NoErr, out |-> out]
    ELSE IF ~stack_can_pop(v) THEN [vm |-> v, err |-> "StackError", out |-> out]
    ELSE pop_loop(stack_pop(v), n - 1, Append(out, stack_last(v)))

\* ------------------------------------------------------------------ arithmetic
\* the two's complement value of x in IntBits bits
wrapping(x) == ((x - IntMin) % (2 ^ IntBits)) + IntMin

\* integer division truncates toward zero
TruncDiv(a, b) ==
    LET q == (IF a < 0 THEN -a ELSE a) \div (IF b < 0 THEN -b ELSE b)
    IN  IF (a < 0) = (b < 0) THEN q ELSE -q

checked(x) == IF x \in Int64 THEN Some(x) ELSE None

checked_add(a, b) == checked(a + b)
checked_sub(a, b) == checked(a - b)
checked_mul(a, b) == checked(a * b)
checked_div(a, b) == IF b = 0 THEN None ELSE checked(TruncDiv(a, b))

wrapping_add(a, b) == Some(wrapping(a + b))

\* numeric_ops! on the operands a and b popped from v; checked_op is the
\* expression `$a.$checked_op($b)` of the Integer arm.  No instance function
\* is registered in the context, and the units of this model push no Float
\* into an arithmetic instruction.
numeric_ops(v, a, b, checked_op, error) ==
    IF a.t = "Integer" /\ b.t = "Integer"
    THEN IF checked_op.some
         THEN R(stack_push(v, ValueInteger(checked_op.v)), NoErr, TRUE)
         ELSE R(v, error, TRUE)
    ELSE R(v, "UnsupportedBinaryOperation", TRUE)

\* `let b = self.stack.pop()?; let a = self.stack.pop()?;`
pop_b_a(v) ==
    IF ~stack_can_pop(v) THEN [vm |-> v, err |-> "StackError", a |-> ValueUnit, b |-> ValueUnit]
    ELSE LET v1 == stack_pop(v)
         IN  IF ~stack_can_pop(v1)
             THEN [vm |-> v1, err |-> "StackError", a |-> ValueUnit, b |-> stack_last(v)]
             ELSE [vm |-> stack_pop(v1), err |-> NoErr, a |-> stack_last(v1),
                   b |-> stack_last(v)]

\* op_add on wrapping arithmetic
op_add_wrapping(v) ==
    LET p == pop_b_a(v)
    IN  IF p.err # NoErr THEN R(p.vm, p.err, TRUE)
        ELSE numeric_ops(p.vm, p.a, p.b, wrapping_add(p.a.n, p.b.n), "Overflow")

op_add(v) ==
    LET p == pop_b_a(v)
    IN  IF p.err # NoErr THEN R(p.vm, p.err, TRUE)
        ELSE numeric_ops(p.vm, p.a, p.b, checked_add(p.a.n, p.b.n), "Overflow")

op_sub(v) ==
    LET p == pop_b_a(v)
    IN  IF p.err # NoErr THEN R(p.vm, p.err, TRUE)
        ELSE numeric_ops(p.vm, p.a, p.b, checked_sub(p.a.n, p.b.n), "Underflow")

op_mul(v) ==
    LET p == pop_b_a(v)
    IN  IF p.err # NoErr THEN R(p.vm, p.err, TRUE)
        ELSE numeric_ops(p.vm, p.a, p.b, checked_mul(p.a.n, p.b.n), "Overflow")

op_div(v) ==
    LET p == pop_b_a(v)
    IN  IF p.err # NoErr THEN R(p.vm, p.err, TRUE)
        ELSE numeric_ops(p.vm, p.a, p.b, checked_div(p.a.n, p.b.n), "DivideByZero")

\* Stack::at_offset and at_offset_mut: offset counts from the top of the
\* current frame (0 = top); a slot outside the frame is a stack error
stack_can_at_offset(v, offset) == offset < Len(v.stack) - v.stack_top

stack_at_offset(v, offset) == v.stack[Len(v.stack) - offset]

\* `let arg = self.stack.pop()?; let value = self.stack.at_offset(offset)?.clone();`
assign_operands(v, offset) ==
    IF ~stack_can_pop(v)
    THEN [vm |-> v, err |-> "StackError", value |-> ValueUnit, arg |-> ValueUnit]
    ELSE LET v1 == stack_pop(v)
         IN  IF ~stack_can_at_offset(v1, offset)
             THEN [vm |-> v1, err |-> "StackError", value |-> ValueUnit,
                   arg |-> stack_last(v)]
             ELSE [vm |-> v1, err |-> NoErr, value |-> stack_at_offset(v1, offset),
                   arg |-> stack_last(v)]

\* assign_ops! that stores the operand in the slot when the checked
\* operation fails
assign_ops_stores_on_error(v, offset, value, arg, checked_op, error) ==
    IF value.t = "Integer" /\ arg.t = "Integer"
    THEN IF checked_op.some
         THEN R([v EXCEPT !.stack[Len(v.stack) - offset] = ValueInteger(checked_op.v)],
                NoErr, TRUE)
         ELSE R([v EXCEPT !.stack[Len(v.stack) - offset] = arg], error, TRUE)
    ELSE R(v, "UnsupportedBinaryOperation", TRUE)

\* assign_ops! on the slot value and the popped arg, followed by the store
\* `*self.stack.at_offset_mut(offset)? = value` of the instruction's arm;
\* checked_op is the expression `$a.$checked_op($b)` of the Integer arm.  No
\* instance function is registered in the context, and the units of this
\* model hand no Float to an assigning instruction.
assign_ops(v, offset, value, arg, checked_op, error) ==
    IF value.t = "Integer" /\ arg.t = "Integer"
    THEN IF checked_op.some
         THEN R([v EXCEPT !.stack[Len(v.stack) - offset] = ValueInteger(checked_op.v)],
                NoErr, TRUE)
         ELSE R(v, error, TRUE)
    ELSE R(v, "UnsupportedBinaryOperation", TRUE)

\* ------------------------------------------------------------------ strings
op_string(v, slot) ==
    IF ~lookup_string_ok(slot) THEN R(v, "MissingStaticString", TRUE)
    ELSE R(stack_push(v, ValueStaticString(slot)), NoErr, TRUE)

Digits == <<"0", "1", "2", "3", "4", "5", "6", "7", "8", "9">>

RECURSIVE Decimal(_)
Decimal(n) ==
    IF n < 10 THEN <<Digits[n + 1]>>
    ELSE Append(Decimal(n \div 10), Digits[(n % 10) + 1])

\* itoa::Buffer::format
format_integer(n) == IF n < 0 THEN <<"-">> \o Decimal(-n) ELSE Decimal(n)

\* ryu::Buffer::format of a finite double of integral value
format_float(x) == format_integer(x) \o <<".", "0">>

\* the loop of op_string_concat: buf after len pops
RECURSIVE string_concat_loop(_, _, _)
string_concat_loop(v, len, buf) ==
    IF len = 0 THEN [vm |-> v, err |-> NoErr, buf |-> buf]
    ELSE IF ~stack_can_pop(v) THEN [vm |-> v, err |-> "StackError", buf |-> buf]
    ELSE LET value == stack_last(v)
             v1 == stack_pop(v)
         IN  CASE value.t = "String" ->
                    string_concat_loop(v1, len - 1, buf \o value.text)
               [] value.t = "StaticString" ->
                    string_concat_loop(v1, len - 1, buf \o lookup_string(value.n))
               [] value.t = "Integer" ->
                    string_concat_loop(v1, len - 1, buf \o format_integer(value.n))
               [] value.t = "Float" ->
                    string_concat_loop(v1, len - 1, buf \o format_float(value.n))
               [] OTHER ->
                    [vm |-> v1, err |-> "UnsupportedStringConcatArgument", buf |-> buf]

op_string_concat(v, len) ==
    LET l == string_concat_loop(v, len, <<>>)
    IN  IF l.err # NoErr THEN R(l.vm, l.err, TRUE)
        ELSE R(stack_push(l.vm, ValueString(l.buf)), NoErr, TRUE)

\* ------------------------------------------------------------------ equality
\* Object::get: the position of key among the entries, 0 when it is absent
object_find(entries, key) ==
    IF \E i \in 1..Len(entries) : entries[i].key = key
    THEN CHOOSE i \in 1..Len(entries) : entries[i].key = key
    ELSE 0

\* Object::insert: a key that is present keeps its place
object_insert(entries, key, value) ==
    LET i == object_find(entries, key)
    IN  IF i = 0 THEN Append(entries, [key |-> key, value |-> value])
        ELSE [entries EXCEPT ![i].value = value]

\* the string arms of value_ptr_eq without the arm (StaticString, String)
string_eq_other_way(a, b) ==
    CASE a.t = "String" /\ b.t = "String" -> a.text = b.text
      [] a.t = "String" /\ b.t = "StaticString" -> a.text = lookup_string(b.n)
      [] a.t = "StaticString" /\ b.t = "StaticString" -> a.n = b.n
      [] OTHER -> FALSE

\* the string arms of value_ptr_eq without the arm (String, StaticString)
string_eq_one_way(a, b) ==
    CASE a.t = "String" /\ b.t = "String" -> a.text = b.text
      [] a.t = "StaticString" /\ b.t = "String" -> lookup_string(a.n) = b.text
      [] a.t = "StaticString" /\ b.t = "StaticString" -> a.n = b.n
      [] OTHER -> FALSE

\* The string arms of value_ptr_eq: texts are compared when a String is
\* involved, the handles when both are StaticStrings.
string_eq(a, b) ==
    CASE a.t = "String" /\ b.t = "String" -> a.text = b.text
      [] a.t = "StaticString" /\ b.t = "String" -> lookup_string(a.n) = b.text
      [] a.t = "String" /\ b.t = "StaticString" -> a.text = lookup_string(b.n)
      [] a.t = "StaticString" /\ b.t = "StaticString" -> a.n = b.n
      [] OTHER -> FALSE

Strings == {"String", "StaticString"}

\* value_ptr_eq; the cells of the units of this model are never exclusively
\* borrowed, so get_ref does not fail.
RECURSIVE value_ptr_eq(_, _)
value_ptr_eq(a, b) ==
    CASE a.t = "Unit" /\ b.t = "Unit" -> TRUE
      [] a.t = "Char" /\ b.t = "Char" -> a.n = b.n
      [] a.t = "Bool" /\ b.t = "Bool" -> a.n = b.n
      [] a.t = "Integer" /\ b.t = "Integer" -> a.n = b.n
      [] a.t = "Float" /\ b.t = "Float" -> a.n = b.n
      [] a.t = "Vec" /\ b.t = "Vec" ->
            /\ Len(a.items) = Len(b.items)
            /\ \A i \in 1..Len(a.items) : value_ptr_eq(a.items[i], b.items[i])
      [] a.t = "Object" /\ b.t = "Object" ->
            /\ Len(a.entries) = Len(b.entries)
            /\ \A i \in 1..Len(a.entries) :
                  LET j == object_find(b.entries, a.entries[i].key)
                  IN  /\ j # 0
                      /\ value_ptr_eq(a.entries[i].value, b.entries[j].value)
      [] a.t \in Strings /\ b.t \in Strings -> string_eq(a, b)
      [] OTHER -> FALSE

\* `let a = self.stack.pop()?; let b = self.stack.pop()?;`
pop_a_b(v) ==
    IF ~stack_can_pop(v) THEN [vm |-> v, err |-> "StackError", a |-> ValueUnit, b |-> ValueUnit]
    ELSE LET v1 == stack_pop(v)
         IN  IF ~stack_can_pop(v1)
             THEN [vm |-> v1, err |-> "StackError", a |-> stack_last(v), b |-> ValueUnit]
             ELSE [vm |-> stack_pop(v1), err |-> NoErr, a |-> stack_last(v),
                   b |-> stack_last(v1)]

op_eq(v) ==
    LET p == pop_a_b(v)
    IN  IF p.err # NoErr THEN R(p.vm, p.err, TRUE)
        ELSE R(stack_push(p.vm, ValueBool(value_ptr_eq(p.a, p.b))), NoErr, TRUE)

op_neq(v) ==
    LET p == pop_b_a(v)
    IN  IF p.err # NoErr THEN R(p.vm, p.err, TRUE)
        ELSE R(stack_push(p.vm, ValueBool(~value_ptr_eq(p.a, p.b))), NoErr, TRUE)

\* ------------------------------------------------------------------ constructors
op_vec(v, count) ==
    LET l == pop_loop(v, count, <<>>)
    IN  IF l.err # NoErr THEN R(l.vm, l.err, TRUE)
        ELSE R(stack_push(l.vm, ValueVec(l.out)), NoErr, TRUE)

op_tuple(v, count) ==
    LET l == pop_loop(v, count, <<>>)
    IN  IF l.err # NoErr THEN R(l.vm, l.err, TRUE)
        ELSE R(stack_push(l.vm, ValueTuple(l.out)), NoErr, TRUE)

\* `for key in keys`: the object after the keys from the i-th on took a value each
RECURSIVE object_loop(_, _, _, _)
object_loop(v, keys, i, object) ==
    IF i > Len(keys) THEN [vm |-> v, err |-> NoErr, object |-> object]
    ELSE IF ~stack_can_pop(v) THEN [vm |-> v, err |-> "StackError", object |-> object]
    ELSE object_loop(stack_pop(v), keys, i + 1,
                     object_insert(object, keys[i], stack_last(v)))

\* op_object that gives the values to the keys in push order
op_object_push_order(v, slot) ==
    IF ~lookup_object_keys_ok(slot) THEN R(v, "MissingStaticObjectKeys", TRUE)
    ELSE LET keys == lookup_object_keys(slot)
             l == pop_loop(v, Len(keys), <<>>)
         IN  IF l.err # NoErr THEN R(l.vm, l.err, TRUE)
             ELSE R(stack_push(l.vm,
                        ValueObject([i \in 1..Len(keys) |->
                            [key |-> keys[i], value |-> l.out[Len(keys) + 1 - i]]])),
                    NoErr, TRUE)

op_object(v, slot) ==
    IF ~lookup_object_keys_ok(slot) THEN R(v, "MissingStaticObjectKeys", TRUE)
    ELSE LET l == object_loop(v, lookup_object_keys(slot), 1, <<>>)
         IN  IF l.err # NoErr THEN R(l.vm, l.err, TRUE)
             ELSE R(stack_push(l.vm, ValueObject(l.object)), NoErr, TRUE)

\* ------------------------------------------------------------------ ordering
OrdOps == {"Gt", "Gte", "Lt", "Lte"}

\* `$a $op $b` on two payloads of one primitive type
Cmp(op, x, y) ==
    CASE op = "Gt" -> x > y
      [] op = "Gte" -> x >= y
      [] op = "Lt" -> x < y
      [] op = "Lte" -> x <= y

\* primitive_ops! with an arm for two Bytes
primitive_ops_with_byte(op, a, b) ==
    IF a.t = b.t /\ a.t \in {"Char", "Bool", "Integer", "Float", "Byte"}
    THEN [err |-> NoErr, value |-> Cmp(op, a.n, b.n)]
    ELSE [err |-> "UnsupportedBinaryOperation", value |-> FALSE]

\* primitive_ops!: the arms (Char, Char), (Bool, Bool), (Integer, Integer),
\* (Float, Float); false < true
primitive_ops(op, a, b) ==
    IF a.t = b.t /\ a.t \in {"Char", "Bool", "Integer", "Float"}
    THEN [err |-> NoErr, value |-> Cmp(op, a.n, b.n)]
    ELSE [err |-> "UnsupportedBinaryOperation", value |-> FALSE]

\* op_gt, op_gte, op_lt, op_lte
op_ord(v, op) ==
    LET p == pop_b_a(v)
    IN  IF p.err # NoErr THEN R(p.vm, p.err, TRUE)
        ELSE LET c == primitive_ops(op, p.a, p.b)
             IN  IF c.err # NoErr THEN R(p.vm, c.err, TRUE)
                 ELSE R(stack_push(p.vm, ValueBool(c.value)), NoErr, TRUE)

Reverse(s) == [i \in 1..Len(s) |-> s[Len(s) + 1 - i]]

\* The result of an operation that also touches the future cells.
RH(v, heap, e, u) == [vm |-> v, heap |-> heap, err |-> e, update_ip |-> u]

\* call_async_fn without `vm.stack.reverse()`
call_async_fn_unreversed(v, heap, offset, args) ==
    LET l == pop_loop(v, args, <<>>)
    IN  IF l.err # NoErr THEN RH(l.vm, heap, l.err, TRUE)
        ELSE LET sub == [Vm_new EXCEPT !.stack = l.out, !.ip = offset]
                 cell == [completed |-> FALSE, borrowed |-> FALSE, vm |-> sub]
                 id == Len(heap) + 1
             IN  RH(stack_push(l.vm, ValueFuture(id)), Append(heap, cell), NoErr, TRUE)

call_async_fn(v, heap, offset, args) ==
    LET l == pop_loop(v, args, <<>>)
    IN  IF l.err # NoErr THEN RH(l.vm, heap, l.err, TRUE)
        ELSE LET sub == [Vm_new EXCEPT !.stack = Reverse(l.out), !.ip = offset]
                 cell == [completed |-> FALSE, borrowed |-> FALSE, vm |-> sub]
                 id == Len(heap) + 1
             IN  RH(stack_push(l.vm, ValueFuture(id)), Append(heap, cell), NoErr, TRUE)

call_offset_fn(v, heap, offset, call, args) ==
    IF call = "Async" THEN call_async_fn(v, heap, offset, args)
    ELSE LET r == push_call_frame(v, offset, args)
         IN  RH(r.vm, heap, r.err, r.update_ip)

call_fn(v, heap, hash, args) ==
    IF hash \in DOMAIN UnitFunctions
    THEN LET info == CompilationUnit_lookup(hash)
         IN  IF info.args # args THEN RH(v, heap, "ArgumentCountMismatch", TRUE)
             ELSE call_offset_fn(v, heap, info.offset, info.call, args)
    ELSE RH(v, heap, "MissingFunction", TRUE)

\* op_await that polls a future whose cell is borrowed elsewhere
op_await_unguarded(v, heap, ok) ==
    IF ~stack_can_pop(v) THEN RH(v, heap, "StackError", TRUE)
    ELSE LET x == stack_last(v)
             v1 == stack_pop(v)
         IN  IF x.t # "Future" THEN RH(v1, heap, "ValueError", TRUE)
             ELSE IF heap[x.n].completed THEN RH(v1, heap, "FutureCompleted", TRUE)
             ELSE LET heap1 == [heap EXCEPT ![x.n].completed = TRUE]
                  IN  IF ~ok THEN RH(v1, heap1, "FutureError", TRUE)
                      ELSE RH(stack_push(v1, FutureOutput(x.n)), heap1, NoErr, TRUE)

\* op_await; ok says whether the future resolves to a value or to an error.
\* strong_mut fails when the cell is borrowed; a future polled after it
\* completed does not give a value.
op_await(v, heap, ok) ==
    IF ~stack_can_pop(v) THEN RH(v, heap, "StackError", TRUE)
    ELSE LET x == stack_last(v)
             v1 == stack_pop(v)
         IN  IF x.t # "Future" THEN RH(v1, heap, "ValueError", TRUE)
             ELSE IF heap[x.n].borrowed THEN RH(v1, heap, "AccessError", TRUE)
             ELSE IF heap[x.n].completed THEN RH(v1, heap, "FutureCompleted", TRUE)
             ELSE LET heap1 == [heap EXCEPT ![x.n].completed = TRUE]
                  IN  IF ~ok THEN RH(v1, heap1, "FutureError", TRUE)
                      ELSE RH(stack_push(v1, FutureOutput(x.n)), heap1, NoErr, TRUE)

\* call_function that checks the argument count after it reset ip and stack
call_function_late_check(v, hash, count) ==
    IF hash \notin DOMAIN UnitFunctions THEN [vm |-> v, err |-> "MissingFunction"]
    ELSE LET function == CompilationUnit_lookup(hash)
             v1 == stack_clear([v EXCEPT !.ip = function.offset])
         IN  IF function.args # count
             THEN [vm |-> v1, err |-> "ArgumentCountMismatch"]
             ELSE [vm |-> [v1 EXCEPT !.stack = [i \in 1..count |-> ValueInteger(i)]],
                   err |-> NoErr]

\* Vm::call_function with count arguments (A::count()), here Integers 1..count
call_function(v, hash, count) ==
    IF hash \notin DOMAIN UnitFunctions THEN [vm |-> v, err |-> "MissingFunction"]
    ELSE LET function == CompilationUnit_lookup(hash)
         IN  IF function.args # count
             THEN [vm |-> v, err |-> "ArgumentCountMismatch"]
             ELSE LET v1 == stack_clear([v EXCEPT !.ip = function.offset])
                  IN  [vm |-> [v1 EXCEPT !.stack = [i \in 1..count |-> ValueInteger(i)]],
                       err |-> NoErr]

\* The pop loop of op_select: `polled` are the futures handed to the
\* FuturesUnordered, each with the loop index it was popped at; their guards
\* are held until the end of the select.
RECURSIVE select_loop(_, _, _, _, _)
select_loop(v, heap, index, len, polled) ==
    IF index = len THEN [vm |-> v, heap |-> heap, err |-> NoErr, polled |-> polled]
    ELSE IF ~stack_can_pop(v)
    THEN [vm |-> v, heap |-> heap, err |-> "StackError", polled |-> polled]
    ELSE LET x == stack_last(v)
             v1 == stack_pop(v)
         IN  IF x.t # "Future"
             THEN [vm |-> v1, heap |-> heap, err |-> "ValueError", polled |-> polled]
             ELSE IF heap[x.n].borrowed
             THEN [vm |-> v1, heap |-> heap, err |-> "AccessError", polled |-> polled]
             ELSE IF heap[x.n].completed
             THEN select_loop(v1, heap, index + 1, len, polled)
             ELSE select_loop(v1, [heap EXCEPT ![x.n].borrowed = TRUE], index + 1, len,
                              Append(polled, [id |-> x.n, index |-> index]))

\* `guards` goes out of scope, or drop(guards): the cells of the polled
\* futures are released
drop_guards(heap, polled) ==
    [id \in DOMAIN heap |->
        IF \E i \in 1..Len(polled) : polled[i].id = id
        THEN [heap[id] EXCEPT !.borrowed = FALSE]
        ELSE heap[id]]

\* the index counted among the futures that were not completed
select_index_among_polled(polled, k) == k - 1

\* The index SelectFuture reports for the k-th future handed to the poll.
select_index(polled, k) == polled[k].index

\* op_select that clears the branch register when there is nothing to poll
op_select_clears_branch(v, heap, len, k, ok) ==
    LET l == select_loop(v, heap, 0, len, <<>>)
    IN  IF l.err # NoErr THEN RH(l.vm, drop_guards(l.heap, l.polled), l.err, TRUE)
        ELSE IF l.polled = <<>> THEN RH([l.vm EXCEPT !.branch = None], l.heap, NoErr, TRUE)
        ELSE LET id == l.polled[k].id
                 heap1 == drop_guards([l.heap EXCEPT ![id].completed = TRUE], l.polled)
             IN  IF ~ok THEN RH(l.vm, heap1, "FutureError", TRUE)
                 ELSE RH([stack_push(l.vm, FutureOutput(id))
                              EXCEPT !.branch = Some(l.polled[k].index)],
                         heap1, NoErr, TRUE)

\* op_select whose guards outlive an error of the polled future
op_select_keeps_guards(v, heap, len, k, ok) ==
    LET l == select_loop(v, heap, 0, len, <<>>)
    IN  IF l.err # NoErr THEN RH(l.vm, drop_guards(l.heap, l.polled), l.err, TRUE)
        ELSE IF l.polled = <<>> THEN RH(l.vm, l.heap, NoErr, TRUE)
        ELSE LET id == l.polled[k].id
                 heap1 == [l.heap EXCEPT ![id].completed = TRUE]
             IN  IF ~ok THEN RH(l.vm, heap1, "FutureError", TRUE)
                 ELSE RH([stack_push(l.vm, FutureOutput(id))
                              EXCEPT !.branch = Some(select_index(l.polled, k))],
                         drop_guards(heap1, l.polled), NoErr, TRUE)

\* op_select; k is the polled future that completes first and ok says
\* whether it resolved to a value or to an error.
op_select(v, heap, len, k, ok) ==
    LET l == select_loop(v, heap, 0, len, <<>>)
    IN  IF l.err # NoErr THEN RH(l.vm, drop_guards(l.heap, l.polled), l.err, TRUE)
        ELSE IF l.polled = <<>> THEN RH(l.vm, l.heap, NoErr, TRUE)
        ELSE LET id == l.polled[k].id
                 heap1 == drop_guards([l.heap EXCEPT ![id].completed = TRUE], l.polled)
             IN  IF ~ok THEN RH(l.vm, heap1, "FutureError", TRUE)
                 ELSE RH([stack_push(l.vm, FutureOutput(id))
                              EXCEPT !.branch = Some(select_index(l.polled, k))],
                         heap1, NoErr, TRUE)

\* op_jump_if_branch that leaves the register set
op_jump_if_branch_keeps(v, branch, offset) ==
    IF v.branch.some /\ v.branch.v = branch
    THEN IF modify_ip_ok(v, offset)
         THEN R(modify_ip(v, offset), NoErr, FALSE)
         ELSE R(v, "IpOutOfBounds", TRUE)
    ELSE R(v, NoErr, TRUE)

op_jump_if_branch(v, branch, offset) ==
    IF v.branch.some /\ v.branch.v = branch
    THEN IF modify_ip_ok(v, offset)
         THEN R(modify_ip([v EXCEPT !.branch = None], offset), NoErr, FALSE)
         ELSE R([v EXCEPT !.branch = None], "IpOutOfBounds", TRUE)
    ELSE R(v, NoErr, TRUE)

\* ------------------------------------------------------------------ tuples
ValueOption(o) == [t |-> "Option", o |-> o]
ValueResult(ok, x) == [t |-> "Result", ok |-> ok, v |-> x]
ValueTypedTuple(ty, items) == [t |-> "TypedTuple", ty |-> ty, items |-> items]

\* on_tuple that hands f a one-element slice for Option::None
on_tuple_none_as_one(value, tuple_like) ==
    IF value.t = "Tuple" THEN Some(value.items)
    ELSE IF ~tuple_like THEN None
    ELSE CASE value.t = "Result" -> Some(<<value.v>>)
           [] value.t = "Option" -> Some(<<IF value.o.some THEN value.o.v ELSE ValueUnit>>)
           [] value.t = "TypedTuple" -> Some(value.items)
           [] OTHER -> None

\* on_tuple: the slice it hands to f, None when the value is not tuple-like
on_tuple(value, tuple_like) ==
    IF value.t = "Tuple" THEN Some(value.items)
    ELSE IF ~tuple_like THEN None
    ELSE CASE value.t = "Result" -> Some(<<value.v>>)
           [] value.t = "Option" -> Some(IF value.o.some THEN <<value.o.v>> ELSE <<>>)
           [] value.t = "TypedTuple" -> Some(value.items)
           [] OTHER -> None

op_match_tuple(v, tuple_like, len, exact) ==
    IF ~stack_can_pop(v) THEN R(v, "StackError", TRUE)
    ELSE LET tuple == on_tuple(stack_last(v), tuple_like)
             result == IF ~tuple.some THEN FALSE
                       ELSE IF exact THEN Len(tuple.v) = len
                       ELSE Len(tuple.v) >= len
         IN  R(stack_push(stack_pop(v), ValueBool(result)), NoErr, TRUE)

op_tuple_index_get(v, index) ==
    IF ~stack_can_pop(v) THEN R(v, "StackError", TRUE)
    ELSE LET tuple == on_tuple(stack_last(v), TRUE)
         IN  IF ~tuple.some THEN R(stack_pop(v), "UnsupportedTupleIndexGet", TRUE)
             ELSE IF index >= Len(tuple.v) THEN R(stack_pop(v), "TupleIndexMissing", TRUE)
             ELSE R(stack_push(stack_pop(v), tuple.v[index + 1]), NoErr, TRUE)

\* ------------------------------------------------------------------ index set
\* An Object or TypedObject that is shared with another holder: the value is
\* a handle of the cell that holds its entries.
ValueShared(t, id) == [t |-> t, id |-> id]

\* the cell of an Object or a TypedObject (t); built keeps the entries it was
\* constructed with
ObjectCell(t, entries) ==
    [completed |-> FALSE, borrowed |-> FALSE, t |-> t, object |-> entries,
     built |-> entries]

\* the key an index names: the text of a String or of a StaticString
index_set_key(index) ==
    IF index.t = "String" THEN Some(index.text)
    ELSE IF index.t = "StaticString" /\ lookup_string_ok(index.n)
    THEN Some(lookup_string(index.n))
    ELSE None

\* op_index_set whose TypedObject arm inserts a missing field
op_index_set_inserts(v, heap) ==
    LET l == pop_loop(v, 3, <<>>)
    IN  IF l.err # NoErr THEN RH(l.vm, heap, l.err, TRUE)
        ELSE LET target == l.out[1]
                 key == index_set_key(l.out[2])
             IN  IF target.t \in {"Object", "TypedObject"} /\ key.some
                 THEN IF heap[target.id].borrowed
                      THEN RH(l.vm, heap, "AccessError", TRUE)
                      ELSE RH(l.vm,
                              [heap EXCEPT ![target.id].object =
                                  object_insert(@, key.v, l.out[3])],
                              NoErr, TRUE)
                 ELSE RH(l.vm, heap, "UnsupportedIndexSet", TRUE)

\* op_index_set; no INDEX_SET instance function is registered in the context
op_index_set(v, heap) ==
    LET l == pop_loop(v, 3, <<>>)
    IN  IF l.err # NoErr THEN RH(l.vm, heap, l.err, TRUE)
        ELSE LET target == l.out[1]
                 key == index_set_key(l.out[2])
                 value == l.out[3]
             IN  IF target.t = "Object"
                 THEN IF ~key.some THEN RH(l.vm, heap, "UnsupportedIndexSet", TRUE)
                      ELSE IF heap[target.id].borrowed
                      THEN RH(l.vm, heap, "AccessError", TRUE)
                      ELSE RH(l.vm,
                              [heap EXCEPT ![target.id].object =
                                  object_insert(@, key.v, value)],
                              NoErr, TRUE)
                 ELSE IF target.t = "TypedObject"
                 THEN IF heap[target.id].borrowed
                      THEN RH(l.vm, heap, "AccessError", TRUE)
                      ELSE IF ~key.some
                      THEN RH(l.vm, heap, "UnsupportedIndexSet", TRUE)
                      ELSE IF object_find(heap[target.id].object, key.v) # 0
                      THEN RH(l.vm,
                              [heap EXCEPT ![target.id].object =
                                  object_insert(@, key.v, value)],
                              NoErr, TRUE)
                      ELSE RH(l.vm, heap, "MissingStructField", TRUE)
                 ELSE RH(l.vm, heap, "UnsupportedIndexSet", TRUE)

\* op_pop_and_jump_if that pops the count values before it looks at the condition
op_pop_and_jump_if_pops_first(v, count, offset) ==
    IF ~stack_can_pop(v) THEN R(v, "StackError", TRUE)
    ELSE LET x == stack_last(v)
             v1 == stack_pop(v)
         IN  IF x.t # "Bool" THEN R(v1, "ValueError", TRUE)
             ELSE IF ~stack_can_popn(v1, count) THEN R(v1, "StackError", TRUE)
             ELSE IF x.n = 0 THEN R(stack_popn(v1, count), NoErr, TRUE)
             ELSE IF ~modify_ip_ok(stack_popn(v1, count), offset)
             THEN R(stack_popn(v1, count), "IpOutOfBounds", TRUE)
             ELSE R(modify_ip(stack_popn(v1, count), offset), NoErr, FALSE)

op_pop_and_jump_if(v, count, offset) ==
    IF ~stack_can_pop(v) THEN R(v, "StackError", TRUE)
    ELSE LET x == stack_last(v)
             v1 == stack_pop(v)
         IN  IF x.t # "Bool" THEN R(v1, "ValueError", TRUE)
             ELSE IF x.n = 0 THEN R(v1, NoErr, TRUE)
             ELSE IF ~stack_can_popn(v1, count) THEN R(v1, "StackError", TRUE)
             ELSE IF ~modify_ip_ok(stack_popn(v1, count), offset)
             THEN R(stack_popn(v1, count), "IpOutOfBounds", TRUE)
             ELSE R(modify_ip(stack_popn(v1, count), offset), NoErr, FALSE)

op_pop_and_jump_if_not(v, count, offset) ==
    IF ~stack_can_pop(v) THEN R(v, "StackError", TRUE)
    ELSE LET x == stack_last(v)
             v1 == stack_pop(v)
         IN  IF x.t # "Bool" THEN R(v1, "ValueError", TRUE)
             ELSE IF x.n # 0 THEN R(v1, NoErr, TRUE)
             ELSE IF ~stack_can_popn(v1, count) THEN R(v1, "StackError", TRUE)
             ELSE IF ~modify_ip_ok(stack_popn(v1, count), offset)
             THEN R(stack_popn(v1, count), "IpOutOfBounds", TRUE)
             ELSE R(modify_ip(stack_popn(v1, count), offset), NoErr, FALSE)

\* pop_decode that reads the value and leaves it on the stack
pop_decode_peek(v, conv) ==
    IF ~stack_can_pop(v) THEN [vm |-> v, err |-> "StackError", value |-> ValueUnit]
    ELSE IF ~conv
    THEN [vm |-> v, err |-> "StackConversionError", value |-> ValueUnit]
    ELSE [vm |-> v, err |-> NoErr, value |-> stack_last(v)]

\* pop_decode: .value is the decoded value; conv says whether T::from_value succeeds
pop_decode(v, conv) ==
    IF ~stack_can_pop(v) THEN [vm |-> v, err |-> "StackError", value |-> ValueUnit]
    ELSE IF ~conv
    THEN [vm |-> stack_pop(v), err |-> "StackConversionError", value |-> ValueUnit]
    ELSE [vm |-> stack_pop(v), err |-> NoErr, value |-> stack_last(v)]

\* the break taken one iteration late
limit_break_late(lim) == lim.some /\ lim.v < 1

\* The end of one iteration of run_for's loop: `if let Some(limit) ... break`
limit_break(lim) == lim.some /\ lim.v <= 1

limit_next(lim) == IF lim.some THEN Some(lim.v - 1) ELSE lim

\* ------------------------------------------------------------------ state
\* ------------------------------------------------------------------ indexer
\* IndexScopeLevel: IndexScope has locals; IndexClosure has captures, existing,
\* scope.locals and generator; IndexFunction has scope.locals and generator.
\* A level is one record with the fields of all three, those its kind lacks
\* left as they are here.  IndexScope::new, IndexClosure::new and
\* IndexFunction::new:
IndexScopeLevel(kind) ==
    [kind |-> kind, locals |-> {}, captures |-> <<>>, existing |-> {},
     generator |-> FALSE]

\* IndexScopes::new; the last level of the sequence is the innermost
IndexScopes_new == <<IndexScopeLevel("IndexScope")>>

\* what a call on the indexer gives: the levels after it, its error, and the
\* captures and generator flag that into_closure and into_function return
IxR(ls, e, captures, generator) ==
    [levels |-> ls, err |-> e, captures |-> captures, generator |-> generator]

declare(ls, var) ==
    IF ls = <<>> THEN IxR(ls, "empty scopes", <<>>, FALSE)
    ELSE IxR([ls EXCEPT ![Len(ls)].locals = @ \cup {var}], NoErr, <<>>, FALSE)

\* mark_use: `while let Some(level) = iter.next()` from level i outward;
\* closures are the positions of the closures pushed to `closures`
RECURSIVE mark_use_loop(_, _, _, _)
mark_use_loop(ls, var, i, closures) ==
    IF i = 0 THEN [found |-> FALSE, closures |-> closures]
    ELSE CASE ls[i].kind = "IndexScope" ->
                IF var \in ls[i].locals THEN [found |-> TRUE, closures |-> closures]
                ELSE mark_use_loop(ls, var, i - 1, closures)
           [] ls[i].kind = "IndexClosure" ->
                IF var \in ls[i].existing THEN [found |-> TRUE, closures |-> closures]
                ELSE IF var \in ls[i].locals THEN [found |-> TRUE, closures |-> closures]
                ELSE mark_use_loop(ls, var, i - 1, closures \cup {i})
           [] ls[i].kind = "IndexFunction" ->
                [found |-> var \in ls[i].locals, closures |-> closures]

\* mark_use that does not note the name in `existing`
mark_use_no_existing(ls, var) ==
    LET w == mark_use_loop(ls, var, Len(ls), {})
    IN  IF w.found
        THEN IxR([i \in DOMAIN ls |->
                    IF i \in w.closures
                    THEN [ls[i] EXCEPT !.captures = Append(@, var)]
                    ELSE ls[i]], NoErr, <<>>, FALSE)
        ELSE IxR(ls, NoErr, <<>>, FALSE)

\* mark_use that captures whether or not the name was found
mark_use_unfound(ls, var) ==
    LET w == mark_use_loop(ls, var, Len(ls), {})
    IN  IxR([i \in DOMAIN ls |->
                IF i \in w.closures
                THEN [ls[i] EXCEPT !.captures = Append(@, var),
                                   !.existing = @ \cup {var}]
                ELSE ls[i]], NoErr, <<>>, FALSE)

\* mark_use that puts the name in front of the captures
mark_use_in_front(ls, var) ==
    LET w == mark_use_loop(ls, var, Len(ls), {})
    IN  IF w.found
        THEN IxR([i \in DOMAIN ls |->
                    IF i \in w.closures
                    THEN [ls[i] EXCEPT !.captures = <<var>> \o @,
                                       !.existing = @ \cup {var}]
                    ELSE ls[i]], NoErr, <<>>, FALSE)
        ELSE IxR(ls, NoErr, <<>>, FALSE)

\* mark_use that notes the name in `existing` of the innermost level only
mark_use_existing_innermost(ls, var) ==
    LET w == mark_use_loop(ls, var, Len(ls), {})
    IN  IF w.found
        THEN IxR([i \in DOMAIN ls |->
                    IF i \in w.closures
                    THEN [ls[i] EXCEPT !.captures = Append(@, var),
                                       !.existing = IF i = Len(ls) THEN @ \cup {var}
                                                    ELSE @]
                    ELSE ls[i]], NoErr, <<>>, FALSE)
        ELSE IxR(ls, NoErr, <<>>, FALSE)

mark_use(ls, var) ==
    LET w == mark_use_loop(ls, var, Len(ls), {})
    IN  IF w.found
        THEN IxR([i \in DOMAIN ls |->
                    IF i \in w.closures
                    THEN [ls[i] EXCEPT !.captures = Append(@, var),
                                       !.existing = @ \cup {var}]
                    ELSE ls[i]], NoErr, <<>>, FALSE)
        ELSE IxR(ls, NoErr, <<>>, FALSE)

\* mark_yield: `while let Some(level) = iter.next()` from level i outward
RECURSIVE mark_yield_loop(_, _)
mark_yield_loop(ls, i) ==
    IF i = 0 THEN IxR(ls, "YieldOutsideFunction", <<>>, FALSE)
    ELSE IF ls[i].kind \in {"IndexFunction", "IndexClosure"}
    THEN IxR([ls EXCEPT ![i].generator = TRUE], NoErr, <<>>, FALSE)
    ELSE mark_yield_loop(ls, i - 1)

\* mark_yield that marks the innermost level, whatever it is
mark_yield_innermost(ls) ==
    IF ls = <<>> THEN IxR(ls, "YieldOutsideFunction", <<>>, FALSE)
    ELSE IxR([ls EXCEPT ![Len(ls)].generator = TRUE], NoErr, <<>>, FALSE)

mark_yield(ls) == mark_yield_loop(ls, Len(ls))

push_function(ls) == IxR(Append(ls, IndexScopeLevel("IndexFunction")), NoErr, <<>>, FALSE)

push_closure(ls) == IxR(Append(ls, IndexScopeLevel("IndexClosure")), NoErr, <<>>, FALSE)

push_scope(ls) == IxR(Append(ls, IndexScopeLevel("IndexScope")), NoErr, <<>>, FALSE)

\* into_closure that leaves a level of another kind where it is
into_closure_keeps_others(ls) ==
    IF ls = <<>> THEN IxR(ls, "missing scope", <<>>, FALSE)
    ELSE IF ls[Len(ls)].kind = "IndexClosure"
    THEN IxR(SubSeq(ls, 1, Len(ls) - 1), NoErr, ls[Len(ls)].captures, ls[Len(ls)].generator)
    ELSE IxR(ls, "expected closure", <<>>, FALSE)

into_closure(ls) ==
    IF ls = <<>> THEN IxR(ls, "missing scope", <<>>, FALSE)
    ELSE IF ls[Len(ls)].kind = "IndexClosure"
    THEN IxR(SubSeq(ls, 1, Len(ls) - 1), NoErr, ls[Len(ls)].captures, ls[Len(ls)].generator)
    ELSE IxR(SubSeq(ls, 1, Len(ls) - 1), "expected closure", <<>>, FALSE)

into_function(ls) ==
    IF ls = <<>> THEN IxR(ls, "missing scope", <<>>, FALSE)
    ELSE IF ls[Len(ls)].kind = "IndexFunction"
    THEN IxR(SubSeq(ls, 1, Len(ls) - 1), NoErr, <<>>, ls[Len(ls)].generator)
    ELSE IxR(SubSeq(ls, 1, Len(ls) - 1), "expected function", <<>>, FALSE)

\* a drop that pops the level below the innermost as well
drop_pops_two(ls) ==
    IF ls = <<>> THEN IxR(ls, "debug_assert", <<>>, FALSE)
    ELSE IxR(SubSeq(ls, 1, Len(ls) - 2), NoErr, <<>>, FALSE)

\* impl Drop for IndexScopeGuard; debug_assert!(exists) on an empty stack
drop(ls) ==
    IF ls = <<>> THEN IxR(ls, "debug_assert", <<>>, FALSE)
    ELSE IxR(SubSeq(ls, 1, Len(ls) - 1), NoErr, <<>>, FALSE)

\* ------------------------------------------------------------------ stream
\* VmExecution::new: the execution of a vm
VmExecution_new(v) == [vm |-> v]

\* GeneratorState
Yielded(value) == [kind |-> "Yielded", value |-> value]
Complete(value) == [kind |-> "Complete", value |-> value]

\* VmExecution::async_resume, which runs the instruction loop of the vm up to
\* a yield, the completion or an error: outcome is what that run came to
async_resume(execution, outcome) ==
    [execution |-> execution, err |-> outcome.err, state |-> outcome.state]

\* Stream::new
Stream_new == [execution |-> Some(VmExecution_new(Vm_new)), first |-> TRUE]

\* what resume gives: the stream after it, the Result, and the stack the
\* execution was resumed on (its stack as it was, when it was not resumed)
SR(s, e, state, stack) == [stream |-> s, err |-> e, state |-> state, stack |-> stack]

\* resume that keeps the execution of a complete stream
resume_keeps_execution(s, value, outcome) ==
    IF ~s.execution.some
    THEN SR(s, "GeneratorComplete", Complete(ValueUnit), <<>>)
    ELSE LET first == s.first
             execution == IF ~first
                          THEN [s.execution.v EXCEPT !.vm = stack_push(@, value)]
                          ELSE s.execution.v
             r == async_resume(execution, outcome)
             taken == [s EXCEPT !.first = FALSE, !.execution = Some(r.execution)]
         IN  SR(taken, r.err, r.state, execution.vm.stack)

\* resume that feeds the value to the first resume too
resume_feeds_first(s, value, outcome) ==
    IF ~s.execution.some
    THEN SR(s, "GeneratorComplete", Complete(ValueUnit), <<>>)
    ELSE LET execution == [s.execution.v EXCEPT !.vm = stack_push(@, value)]
             r == async_resume(execution, outcome)
             taken == [s EXCEPT !.first = FALSE, !.execution = Some(r.execution)]
         IN  IF r.err # NoErr THEN SR(taken, r.err, r.state, execution.vm.stack)
             ELSE IF r.state.kind = "Complete"
             THEN SR([taken EXCEPT !.execution = None], NoErr, r.state,
                     execution.vm.stack)
             ELSE SR(taken, NoErr, r.state, execution.vm.stack)

\* Stream::resume; `mem::take(&mut self.first)` reads first and leaves false
resume(s, value, outcome) ==
    IF ~s.execution.some
    THEN SR(s, "GeneratorComplete", Complete(ValueUnit), <<>>)
    ELSE LET first == s.first
             execution == IF ~first
                          THEN [s.execution.v EXCEPT !.vm = stack_push(@, value)]
                          ELSE s.execution.v
             r == async_resume(execution, outcome)
             taken == [s EXCEPT !.first = FALSE, !.execution = Some(r.execution)]
         IN  IF r.err # NoErr THEN SR(taken, r.err, r.state, execution.vm.stack)
             ELSE IF r.state.kind = "Complete"
             THEN SR([taken EXCEPT !.execution = None], NoErr, r.state,
                     execution.vm.stack)
             ELSE SR(taken, NoErr, r.state, execution.vm.stack)

\* Stream::next: the Result, with the Option<Value> as `value`
next(s, outcome) ==
    LET r == resume(s, ValueUnit, outcome)
    IN  [stream |-> r.stream, err |-> r.err, state |-> r.state, stack |-> r.stack,
         value |-> IF r.err = NoErr /\ r.state.kind = "Yielded"
                   THEN Some(r.state.value) ELSE None]

\* the history before any call
\* op and arg: the call; pre and guards: the levels (or the stream) and the
\* guards alive before it; r: what it gave
NoCall ==
    [op |-> "", arg |-> "", pre |-> <<>>, guards |-> 0,
     r |-> IxR(<<>>, NoErr, <<>>, FALSE)]

NoRet == [kind |-> "none", err |-> NoErr, value |-> ValueUnit]
RetErr(e) == [kind |-> "err", err |-> e, value |-> ValueUnit]
RetNone == [kind |-> "ok_none", err |-> NoErr, value |-> ValueUnit]
RetValue(x) == [kind |-> "value", err |-> NoErr, value |-> x]

NoSnap == [p |-> 0, frames |-> <<>>, stack |-> <<>>, args |-> 0]
NoLast == [inst |-> Unset, err |-> NoErr, pre |-> Vm_new, popped |-> FALSE,
           snap |-> NoSnap, polled |-> <<>>, won |-> 0]

\* n: instructions run by the current Task call; ex0: exited when it began;
\* api: the call; lenAtExit: stack length when exited was set;
\* jumps: JumpIfBranch jumps taken since the last Select that had a winner;
\* depth0: call frames when the task was dropped
H0 == [n |-> 0, ex0 |-> FALSE, api |-> "", lenAtExit |-> 0, jumps |-> 0, depth0 |-> 0]

Init ==
    /\ vm = Vm_new
    /\ fetched = {}
    /\ futures = <<>>
    /\ pc = "none"
    /\ limit = None
    /\ ret = NoRet
    /\ last = NoLast
    /\ shadow = <<>>
    /\ h = H0
    /\ levels = IndexScopes_new
    /\ guards = 0
    /\ stream = Stream_new
    /\ done = NoCall

\* Vm::run: a task on the vm as it is, for a unit of its own
Vm_run ==
    /\ pc = "none"
    /\ pc' = "idle"
    /\ UNCHANGED <<vm, fetched, futures, limit, ret, last, shadow, h>>
    /\ UNCHANGED hostvars

\* impl Drop for Task
Task_drop ==
    /\ pc = "idle"
    /\ vm' = Vm_clear(vm)
    /\ futures' = <<>>
    /\ pc' = "none"
    /\ limit' = None
    /\ ret' = NoRet
    /\ last' = NoLast
    /\ shadow' = <<>>
    /\ h' = [H0 EXCEPT !.jumps = h.jumps, !.depth0 = Len(vm.call_frames),
                       !.api = "drop", !.ex0 = vm.exited]
    /\ fetched' = {}
    /\ UNCHANGED hostvars

\* Task::step up to its call of run_for(Some(1))
Task_step ==
    /\ pc = "idle"
    /\ pc' = "step"
    /\ limit' = Some(1)
    /\ ret' = NoRet
    /\ h' = [h EXCEPT !.n = 0, !.ex0 = vm.exited, !.api = "step"]
    /\ UNCHANGED <<vm, fetched, futures, last, shadow>>
    /\ UNCHANGED hostvars

\* Task::step after run_for returned Ok
Task_step_return ==
    /\ pc = "step_ret"
    /\ pc' = "idle"
    /\ limit' = None
    /\ IF vm.exited
       THEN \E conv \in BOOLEAN :
              LET d == pop_decode(vm, conv)
              IN  /\ vm' = d.vm
                  /\ ret' = IF d.err # NoErr THEN RetErr(d.err) ELSE RetValue(d.value)
       ELSE /\ ret' = RetNone
            /\ vm' = vm
    /\ UNCHANGED <<fetched, futures, last, shadow, h>>
    /\ UNCHANGED hostvars

\* Task::run_to_completion: the head of `while !self.vm.exited`
Task_run_to_completion ==
    /\ pc = "idle"
    /\ pc' = "rtc"
    /\ ret' = NoRet
    /\ h' = [h EXCEPT !.n = 0, !.ex0 = vm.exited, !.api = "rtc"]
    /\ UNCHANGED <<vm, fetched, futures, limit, last, shadow>>
    /\ UNCHANGED hostvars

Task_rtc_run_for ==
    /\ pc = "rtc"
    /\ ~vm.exited
    /\ pc' = "rtc_run"
    /\ limit' = None
    /\ UNCHANGED <<vm, fetched, futures, ret, last, shadow, h>>
    /\ UNCHANGED hostvars

Task_rtc_return ==
    /\ pc = "rtc"
    /\ vm.exited
    /\ pc' = "idle"
    /\ \E conv \in BOOLEAN :
         LET d == pop_decode(vm, conv)
         IN  /\ vm' = d.vm
             /\ ret' = IF d.err # NoErr THEN RetErr(d.err) ELSE RetValue(d.value)
    /\ UNCHANGED <<fetched, futures, limit, last, shadow, h>>
    /\ UNCHANGED hostvars

InLoop == pc \in {"step", "rtc_run"}

\* a loop that does not look at exited
run_for_continue_always(v) == TRUE

\* run_for: the condition of `while !self.exited`
run_for_continue(v) == ~v.exited

AfterLoop == IF pc = "step" THEN "step_ret" ELSE "rtc"

\* run_for: `while !self.exited` is false
run_for_exit ==
    /\ InLoop
    /\ ~run_for_continue(vm)
    /\ pc' = AfterLoop
    /\ UNCHANGED <<vm, fetched, futures, limit, ret, last, shadow, h>>
    /\ UNCHANGED hostvars

\* run_for: unit.instruction_at(self.ip) is None
run_for_ip_out_of_bounds ==
    /\ InLoop
    /\ run_for_continue(vm)
    /\ vm.ip >= UnitLen
    /\ pc' = "idle"
    /\ ret' = RetErr("IpOutOfBounds")
    /\ limit' = None
    /\ UNCHANGED <<vm, fetched, futures, last, shadow, h>>
    /\ UNCHANGED hostvars

\* run_for that adds one to ip before it looks at the Result of the operation
run_for_update_ip_first(r) ==
    IF r.update_ip THEN [r.vm EXCEPT !.ip = @ + 1] ELSE r.vm

\* run_for: the vm after the `?` of the operation and `if update_ip { self.ip += 1 }`
run_for_update_ip(r) ==
    IF r.err # NoErr THEN r.vm
    ELSE IF r.update_ip THEN [r.vm EXCEPT !.ip = @ + 1] ELSE r.vm

\* One iteration of run_for's loop on instruction inst, whose operation gave r
\* (polled and k: what a Select polled and which of them won).
run_for_iter(inst, r, polled, k) ==
    /\ InLoop
    /\ run_for_continue(vm)
    /\ vm.ip < UnitLen
    /\ vm.ip \notin fetched
    /\ Len(r.vm.stack) <= MaxStack
    /\ Len(r.vm.call_frames) <= MaxFrames
    /\ Len(r.heap) <= MaxFutures
    /\ fetched' = fetched \cup {vm.ip}
    /\ futures' = r.heap
    /\ LET pushed == Len(r.vm.call_frames) > Len(vm.call_frames)
           poppedF == Len(r.vm.call_frames) < Len(vm.call_frames)
           snap == [p |-> vm.ip, frames |-> vm.call_frames, stack |-> vm.stack,
                    args |-> inst.b]
           won == IF inst.op = "Select" /\ r.err = NoErr /\ polled # <<>> THEN k ELSE 0
       IN  /\ shadow' = IF pushed THEN Append(shadow, snap)
                        ELSE IF poppedF THEN SubSeq(shadow, 1, Len(shadow) - 1)
                        ELSE shadow
           /\ last' = [inst |-> inst, err |-> r.err, pre |-> vm, popped |-> poppedF,
                       snap |-> IF poppedF THEN shadow[Len(shadow)] ELSE NoSnap,
                       polled |-> polled, won |-> won]
           /\ h' = [h EXCEPT !.n = @ + 1,
                             !.lenAtExit = IF r.vm.exited THEN Len(r.vm.stack) ELSE @,
                             !.jumps = IF won > 0 THEN 0
                                       ELSE IF inst.op = "JumpIfBranch" /\ r.err = NoErr
                                               /\ ~r.update_ip
                                       THEN @ + 1 ELSE @]
    /\ vm' = run_for_update_ip(r)
    /\ IF r.err # NoErr
       THEN /\ pc' = "idle"
            /\ ret' = RetErr(r.err)
            /\ limit' = None
       ELSE /\ ret' = ret
            /\ IF limit_break(limit)
               THEN pc' = AfterLoop /\ limit' = limit
               ELSE pc' = pc /\ limit' = limit_next(limit)
    /\ UNCHANGED hostvars

\* an operation that leaves the future cells alone
NH(r) == RH(r.vm, futures, r.err, r.update_ip)

Inst_Integer == run_for_iter(Inst("Integer", 1, 0), NH(op_integer(vm, 1)), <<>>, 0)

Inst_Pop == run_for_iter(Inst("Pop", 0, 0), NH(op_pop(vm)), <<>>, 0)

Inst_PopN == run_for_iter(Inst("PopN", 2, 0), NH(op_popn(vm, 2)), <<>>, 0)

Inst_Clean == run_for_iter(Inst("Clean", 1, 0), NH(op_clean(vm, 1)), <<>>, 0)

Inst_Dup == run_for_iter(Inst("Dup", 0, 0), NH(op_dup(vm)), <<>>, 0)

Inst_Return == run_for_iter(Inst("Return", 0, 0), NH(op_return(vm)), <<>>, 0)

Inst_ReturnUnit == run_for_iter(Inst("ReturnUnit", 0, 0), NH(op_return_unit(vm)), <<>>, 0)

\* Call of an Immediate function of the unit
Inst_Call ==
    \E hash \in {1, 2} :
        LET args == CompilationUnit_lookup(hash).args
        IN  run_for_iter(Inst("Call", hash, args), call_fn(vm, futures, hash, args), <<>>, 0)

\* Call of an Async function of the unit
Inst_CallAsync ==
    run_for_iter(Inst("Call", 3, 0), call_fn(vm, futures, 3, 0), <<>>, 0)

SelectLens == 1..MaxStack

Inst_Select ==
    \E len \in SelectLens :
        LET polled == select_loop(vm, futures, 0, len, <<>>).polled
        IN  \E k \in 1..(IF Len(polled) = 0 THEN 1 ELSE Len(polled)), ok \in BOOLEAN :
                /\ (polled = <<>> => ok)
                /\ run_for_iter(Inst("Select", len, 0),
                                op_select(vm, futures, len, k, ok), polled, k)

Branches == 0..(MaxStack - 1)

Inst_JumpIfBranch ==
    \E branch \in Branches, offset \in {2, -1} :
        run_for_iter(Inst("JumpIfBranch", branch, offset),
                     NH(op_jump_if_branch(vm, branch, offset)), <<>>, 0)

\* Integer{number} for every number of the width
Inst_IntegerAny ==
    \E number \in Int64 :
        /\ Len(vm.stack) < MaxOperands
        /\ run_for_iter(Inst("Integer", number, 0), NH(op_integer(vm, number)), <<>>, 0)

Inst_Unit ==
    /\ Len(vm.stack) < MaxOperands
    /\ run_for_iter(Inst("Unit", 0, 0), NH(R(stack_push(vm, ValueUnit), NoErr, TRUE)), <<>>, 0)

Inst_Add == run_for_iter(Inst("Add", 0, 0), NH(op_add(vm)), <<>>, 0)

Inst_Sub == run_for_iter(Inst("Sub", 0, 0), NH(op_sub(vm)), <<>>, 0)

Inst_Mul == run_for_iter(Inst("Mul", 0, 0), NH(op_mul(vm)), <<>>, 0)

Inst_Div == run_for_iter(Inst("Div", 0, 0), NH(op_div(vm)), <<>>, 0)

Offsets == {0, 1}

Inst_AddAssign ==
    \E offset \in Offsets :
        LET p == assign_operands(vm, offset)
            r == IF p.err # NoErr THEN R(p.vm, p.err, TRUE)
                 ELSE assign_ops(p.vm, offset, p.value, p.arg,
                                 checked_add(p.value.n, p.arg.n), "Overflow")
        IN  /\ Cardinality(fetched) < MaxInsts
            /\ run_for_iter(Inst("AddAssign", offset, 0), NH(r), <<>>, 0)

Inst_SubAssign ==
    \E offset \in Offsets :
        LET p == assign_operands(vm, offset)
            r == IF p.err # NoErr THEN R(p.vm, p.err, TRUE)
                 ELSE assign_ops(p.vm, offset, p.value, p.arg,
                                 checked_sub(p.value.n, p.arg.n), "Underflow")
        IN  /\ Cardinality(fetched) < MaxInsts
            /\ run_for_iter(Inst("SubAssign", offset, 0), NH(r), <<>>, 0)

Inst_MulAssign ==
    \E offset \in Offsets :
        LET p == assign_operands(vm, offset)
            r == IF p.err # NoErr THEN R(p.vm, p.err, TRUE)
                 ELSE assign_ops(p.vm, offset, p.value, p.arg,
                                 checked_mul(p.value.n, p.arg.n), "Overflow")
        IN  /\ Cardinality(fetched) < MaxInsts
            /\ run_for_iter(Inst("MulAssign", offset, 0), NH(r), <<>>, 0)

Inst_DivAssign ==
    \E offset \in Offsets :
        LET p == assign_operands(vm, offset)
            r == IF p.err # NoErr THEN R(p.vm, p.err, TRUE)
                 ELSE assign_ops(p.vm, offset, p.value, p.arg,
                                 checked_div(p.value.n, p.arg.n), "DivideByZero")
        IN  /\ Cardinality(fetched) < MaxInsts
            /\ run_for_iter(Inst("DivAssign", offset, 0), NH(r), <<>>, 0)

\* the payloads of the literal instructions of the units
Payloads == 0..1

\* the values of the instructions Unit, Bool, Byte, Char, Integer and Float:
\* a Char is its code point, a Float a finite double of integral value
Literals ==
    {ValueUnit} \cup {ValueBool(b) : b \in BOOLEAN}
        \cup {Val(t, n) : t \in {"Byte", "Char", "Integer", "Float"}, n \in Payloads}

\* Unit, Bool{value}, Byte{b}, Char{c}, Integer{number}, Float{number}
Inst_Literal ==
    \E x \in Literals :
        /\ Len(vm.stack) < MaxOperands
        /\ run_for_iter(Inst(x.t, x.n, 0), NH(R(stack_push(vm, x), NoErr, TRUE)), <<>>, 0)

\* String{slot}; slot Len(StaticStrings) is not in the unit
Inst_String ==
    \E slot \in 0..Len(StaticStrings) :
        /\ Len(vm.stack) < MaxOperands
        /\ run_for_iter(Inst("String", slot, 0), NH(op_string(vm, slot)), <<>>, 0)

\* StringConcat{len: 1}: a String that owns the text of the value on top
Inst_StringConcat ==
    run_for_iter(Inst("StringConcat", 1, 0), NH(op_string_concat(vm, 1)), <<>>, 0)

Inst_Eq == run_for_iter(Inst("Eq", 0, 0), NH(op_eq(vm)), <<>>, 0)

Inst_Neq == run_for_iter(Inst("Neq", 0, 0), NH(op_neq(vm)), <<>>, 0)

Counts == 0..2

Inst_Vec ==
    \E count \in Counts :
        /\ Cardinality(fetched) < MaxInsts
        /\ run_for_iter(Inst("Vec", count, 0), NH(op_vec(vm, count)), <<>>, 0)

Inst_Tuple ==
    \E count \in Counts :
        /\ Cardinality(fetched) < MaxInsts
        /\ run_for_iter(Inst("Tuple", count, 0), NH(op_tuple(vm, count)), <<>>, 0)

\* Object{slot}; slot Len(StaticObjectKeys) is not in the unit
Inst_Object ==
    \E slot \in 0..Len(StaticObjectKeys) :
        /\ Cardinality(fetched) < MaxInsts
        /\ run_for_iter(Inst("Object", slot, 0), NH(op_object(vm, slot)), <<>>, 0)

\* Gt, Gte, Lt, Lte
Inst_Ord ==
    \E op \in OrdOps :
        run_for_iter(Inst(op, 0, 0), NH(op_ord(vm, op)), <<>>, 0)

ArgCounts == 0..2

\* Call{hash, args} of any function of the unit, with any argument count
Inst_CallArgs ==
    \E hash \in DOMAIN UnitFunctions, args \in ArgCounts :
        run_for_iter(Inst("Call", hash, args), call_fn(vm, futures, hash, args), <<>>, 0)

\* Call of an Async function of the unit with the arguments of its signature
Inst_CallAsyncArgs ==
    \E hash \in {3, 4} :
        LET args == CompilationUnit_lookup(hash).args
        IN  run_for_iter(Inst("Call", hash, args), call_fn(vm, futures, hash, args), <<>>, 0)

Inst_Await ==
    \E ok \in BOOLEAN :
        run_for_iter(Inst("Await", 0, 0), op_await(vm, futures, ok), <<>>, 0)

\* The host takes a guard on the cell of a future between two task calls
Host_borrow ==
    /\ pc = "idle"
    /\ \E id \in DOMAIN futures :
          /\ ~futures[id].borrowed
          /\ futures' = [futures EXCEPT ![id].borrowed = TRUE]
    /\ UNCHANGED <<vm, fetched, pc, limit, ret, last, shadow, h>>
    /\ UNCHANGED hostvars

\* and drops it
Host_release ==
    /\ pc = "idle"
    /\ \E id \in DOMAIN futures :
          /\ futures[id].borrowed
          /\ futures' = [futures EXCEPT ![id].borrowed = FALSE]
    /\ UNCHANGED <<vm, fetched, pc, limit, ret, last, shadow, h>>
    /\ UNCHANGED hostvars

\* Vm::call_function on a vm no task borrows; a missing hash is 5
Vm_call_function ==
    /\ pc = "none"
    /\ \E hash \in 1..5, count \in ArgCounts :
          LET r == call_function(vm, hash, count)
          IN  /\ vm' = r.vm
              /\ pc' = IF r.err = NoErr THEN "idle" ELSE "none"
              /\ ret' = IF r.err = NoErr THEN NoRet ELSE RetErr(r.err)
              /\ last' = [NoLast EXCEPT !.inst = Inst("call_function", hash, count),
                                        !.err = r.err, !.pre = vm]
    /\ h' = [h EXCEPT !.api = "call_function"]
    /\ UNCHANGED <<fetched, futures, limit, shadow>>
    /\ UNCHANGED hostvars

\* a driver that steps its tasks over the first instructions of their units
DriverShort ==
    \/ Vm_run
    \/ Task_drop
    \/ Task_step
    \/ Task_step_return

\* a driver that steps its tasks through units that do not return
DriverNoExit ==
    \/ DriverShort
    \/ run_for_ip_out_of_bounds

\* a driver that steps its tasks
DriverStep ==
    \/ DriverNoExit
    \/ run_for_exit

\* a driver that also runs its tasks to completion
Driver ==
    \/ DriverStep
    \/ Task_run_to_completion
    \/ Task_rtc_run_for
    \/ Task_rtc_return

\* units of calls and stack shuffling
Next ==
    \/ Driver
    \/ Inst_Integer
    \/ Inst_Pop
    \/ Inst_PopN
    \/ Inst_Clean
    \/ Inst_Call
    \/ Inst_Return
    \/ Inst_ReturnUnit

Spec == Init /\ [][Next]_vars

\* units of async calls, select and branch jumps, stepped by their driver
NextSelect ==
    \/ DriverStep
    \/ Inst_CallAsync
    \/ Inst_Dup
    \/ Inst_Pop
    \/ Inst_Select
    \/ Inst_JumpIfBranch
    \/ Inst_ReturnUnit

SpecSelect == Init /\ [][NextSelect]_vars

\* units of async calls and Await, stepped by a host that may hold futures
NextAsync ==
    \/ DriverNoExit
    \/ Host_borrow
    \/ Host_release
    \/ Inst_Integer
    \/ Inst_CallAsyncArgs
    \/ Inst_Await

SpecAsync == Init /\ [][NextAsync]_vars

\* units of calls with any argument count, entered through Vm::run or
\* Vm::call_function
NextCall ==
    \/ DriverStep
    \/ Vm_call_function
    \/ Inst_Integer
    \/ Inst_CallArgs
    \/ Inst_ReturnUnit

SpecCall == Init /\ [][NextCall]_vars

\* units of integer arithmetic
NextArith ==
    \/ DriverNoExit
    \/ Inst_IntegerAny
    \/ Inst_Unit
    \/ Inst_Add
    \/ Inst_Sub
    \/ Inst_Mul
    \/ Inst_Div

SpecArith == Init /\ [][NextArith]_vars

\* units of literals, strings and ordering
NextOrd ==
    \/ DriverNoExit
    \/ Inst_Literal
    \/ Inst_String
    \/ Inst_StringConcat
    \/ Inst_Ord

SpecOrd == Init /\ [][NextOrd]_vars

\* ---------------------------------------------------- values on the stack
\* The host fills the stack before it runs a task (the arguments of
\* Vm::call_function); these are the values it passes.
Items == {ValueInteger(1), ValueInteger(2), ValueTuple(<<ValueInteger(1)>>)}

SeqsOf(S) == UNION {[1..n -> S] : n \in 0..MaxLen}

Keys == {<<"a">>, <<"b">>}

Entries == {[key |-> k, value |-> x] : k \in Keys, x \in Items}

Objects ==
    {<<>>} \cup {<<e>> : e \in Entries}
        \cup {p \in Entries \X Entries : p[1].key # p[2].key}

HostValues ==
    Literals
        \cup {ValueStaticString(slot) : slot \in 0..(Len(StaticStrings) - 1)}
        \cup {ValueString(lookup_string(slot)) : slot \in 0..(Len(StaticStrings) - 1)}
        \cup {ValueVec(items) : items \in SeqsOf(Items)}
        \cup {ValueTuple(items) : items \in SeqsOf(Items)}
        \cup {ValueObject(entries) : entries \in Objects}

\* the state after construction of a vm whose stack the host filled
InitStack(stack) ==
    /\ vm = [Vm_new EXCEPT !.stack = stack]
    /\ fetched = {}
    /\ futures = <<>>
    /\ pc = "none"
    /\ limit = None
    /\ ret = NoRet
    /\ last = NoLast
    /\ shadow = <<>>
    /\ h = H0
    /\ levels = IndexScopes_new
    /\ guards = 0
    /\ stream = Stream_new
    /\ done = NoCall

\* two values on the stack
InitEq == \E a \in HostValues, b \in HostValues : InitStack(<<a, b>>)

\* units of comparisons for equality
NextEq ==
    \/ DriverShort
    \/ Inst_Eq
    \/ Inst_Neq

SpecEq == InitEq /\ [][NextEq]_vars

\* up to MaxStack items on the stack
InitStruct == \E stack \in UNION {[1..n -> Items] : n \in 0..MaxStack} : InitStack(stack)

\* units that build vectors, tuples and objects
NextStruct ==
    \/ DriverShort
    \/ Inst_Vec
    \/ Inst_Tuple
    \/ Inst_Object

SpecStruct == InitStruct /\ [][NextStruct]_vars

\* ------------------------------------------------------------ indexer calls
\* the names the compiler indexes
Names == {"x", "y"}

\* A call op(arg) on the IndexScopes that gave r and left g guards alive
IndexScopes_call(op, arg, r, g) ==
    /\ levels' = r.levels
    /\ guards' = g
    /\ done' = [op |-> op, arg |-> arg, pre |-> levels, guards |-> guards, r |-> r]
    /\ UNCHANGED <<taskvars, stream>>

\* the declarations the levels hold
Locals == {p \in (DOMAIN levels) \X Names : p[2] \in levels[p[1]].locals}

IndexScopes_declare ==
    /\ Cardinality(Locals) < MaxLocals
    /\ \E var \in Names :
          IndexScopes_call("declare", var, declare(levels, var), guards)

IndexScopes_mark_use ==
    \E var \in Names : IndexScopes_call("mark_use", var, mark_use(levels, var), guards)

IndexScopes_mark_yield ==
    IndexScopes_call("mark_yield", "", mark_yield(levels), guards)

\* push_function, push_closure and push_scope each return a guard
IndexScopes_push ==
    /\ Len(levels) < MaxLevels
    /\ \/ IndexScopes_call("push_function", "", push_function(levels), guards + 1)
       \/ IndexScopes_call("push_closure", "", push_closure(levels), guards + 1)
       \/ IndexScopes_call("push_scope", "", push_scope(levels), guards + 1)

\* a guard goes out of scope
IndexScopeGuard_drop ==
    /\ guards > 0
    /\ IndexScopes_call("drop", "", drop(levels), guards - 1)

IndexScopeGuard_into_closure ==
    /\ guards > 0
    /\ IndexScopes_call("into_closure", "", into_closure(levels), guards - 1)

IndexScopeGuard_into_function ==
    /\ guards > 0
    /\ IndexScopes_call("into_function", "", into_function(levels), guards - 1)

\* the indexer on the items of a file
NextIndex ==
    \/ IndexScopes_declare
    \/ IndexScopes_mark_use
    \/ IndexScopes_mark_yield
    \/ IndexScopes_push
    \/ IndexScopeGuard_drop
    \/ IndexScopeGuard_into_closure
    \/ IndexScopeGuard_into_function

SpecIndex == Init /\ [][NextIndex]_vars

\* ------------------------------------------------------------- stream calls
\* the values a caller feeds and a generator yields or returns
Fed == {ValueUnit, ValueInteger(1)}

\* what a run of the generator comes to
Outcomes ==
    {[err |-> NoErr, state |-> Yielded(x)] : x \in Fed}
        \cup {[err |-> NoErr, state |-> Complete(x)] : x \in Fed}
        \cup {[err |-> "Panic", state |-> Complete(ValueUnit)]}

\* A call op(arg) on the stream that gave r
Stream_call(op, arg, r) ==
    /\ r.stream.execution.some => Len(r.stream.execution.v.vm.stack) <= MaxStack
    /\ stream' = r.stream
    /\ done' = [op |-> op, arg |-> arg, pre |-> stream, guards |-> guards, r |-> r]
    /\ UNCHANGED <<taskvars, levels, guards>>

Stream_resume ==
    \E value \in Fed, outcome \in Outcomes :
        Stream_call("resume", value, resume(stream, value, outcome))

Stream_next ==
    \E outcome \in Outcomes :
        Stream_call("next", ValueUnit, next(stream, outcome))

\* the callers of a stream
NextStream ==
    \/ Stream_resume
    \/ Stream_next

SpecStream == Init /\ [][NextStream]_vars

\* ------------------------------------------------------------ conditional jumps
\* PopAndJumpIf{count, offset} and PopAndJumpIfNot{count, offset}
Inst_PopAndJumpIf ==
    \E count \in Counts, offset \in {3, -1} :
        \/ run_for_iter(Inst("PopAndJumpIf", count, offset),
                        NH(op_pop_and_jump_if(vm, count, offset)), <<>>, 0)
        \/ run_for_iter(Inst("PopAndJumpIfNot", count, offset),
                        NH(op_pop_and_jump_if_not(vm, count, offset)), <<>>, 0)

\* conditions and other values on the stack
Conditions == {ValueBool(TRUE), ValueBool(FALSE), ValueInteger(1)}

InitJump ==
    \E stack \in UNION {[1..n -> Conditions] : n \in 0..MaxStack} : InitStack(stack)

\* units of conditional jumps
NextJump ==
    \/ DriverNoExit
    \/ Inst_PopAndJumpIf

SpecJump == InitJump /\ [][NextJump]_vars

\* integer operands, alone or with a Unit beside or below the target slot
AssignStacks ==
    {<<>>} \cup {<<ValueInteger(a)>> : a \in Int64}
        \cup {<<ValueInteger(a), ValueInteger(b)>> : a, b \in Int64}
        \cup {<<ValueInteger(a), ValueUnit, ValueInteger(b)>> : a, b \in Int64}
        \cup {<<ValueUnit, ValueInteger(a), ValueInteger(b)>> : a, b \in Int64}

InitAssign == \E stack \in AssignStacks : InitStack(stack)

\* units of assigning arithmetic and division
NextAssign ==
    \/ DriverShort
    \/ Inst_AddAssign
    \/ Inst_SubAssign
    \/ Inst_MulAssign
    \/ Inst_DivAssign
    \/ Inst_Div

SpecAssign == InitAssign /\ [][NextAssign]_vars

Inst_IndexSet == run_for_iter(Inst("IndexSet", 0, 0), op_index_set(vm, futures), <<>>, 0)

\* the values, indexes and targets of an IndexSet on the object of cell 1
IndexSetValues == {ValueInteger(3), ValueUnit}

IndexSetKeys ==
    {ValueString(<<"a">>), ValueString(<<"b">>), ValueStaticString(0), ValueInteger(1)}

IndexSetStacks(t) ==
    LET triples == {<<value, index, target>> :
                        value \in IndexSetValues, index \in IndexSetKeys,
                        target \in {ValueShared(t, 1), ValueUnit}}
        second == {<<ValueInteger(3), index, ValueShared(t, 1)>> :
                        index \in {ValueString(<<"a">>), ValueString(<<"b">>)}}
    IN  triples \cup {b \o a : b \in second, a \in triples}

\* the host built an Object or a TypedObject and handed it to the vm
InitIndexSet ==
    \E t \in {"Object", "TypedObject"}, entries \in Objects :
        \E stack \in IndexSetStacks(t) :
            /\ vm = [Vm_new EXCEPT !.stack = stack]
            /\ fetched = {}
            /\ futures = <<ObjectCell(t, entries)>>
            /\ pc = "none"
            /\ limit = None
            /\ ret = NoRet
            /\ last = NoLast
            /\ shadow = <<>>
            /\ h = H0
            /\ levels = IndexScopes_new
            /\ guards = 0
            /\ stream = Stream_new
            /\ done = NoCall

\* units of IndexSet
NextIndexSet ==
    \/ DriverShort
    \/ Inst_IndexSet

SpecIndexSet == InitIndexSet /\ [][NextIndexSet]_vars

Inst_MatchTuple ==
    \E tuple_like \in BOOLEAN, len \in 0..MaxLen, exact \in BOOLEAN :
        /\ Cardinality(fetched) < MaxInsts
        /\ run_for_iter(Inst("MatchTuple", len, [tuple_like |-> tuple_like, exact |-> exact]),
                        NH(op_match_tuple(vm, tuple_like, len, exact)), <<>>, 0)

Inst_TupleIndexGet ==
    \E index \in 0..MaxLen :
        /\ Cardinality(fetched) < MaxInsts
        /\ run_for_iter(Inst("TupleIndexGet", index, 0),
                        NH(op_tuple_index_get(vm, index)), <<>>, 0)

\* tuples and the values that are like tuples
TupleLikes ==
    {ValueTuple(items) : items \in SeqsOf({ValueInteger(1)})}
        \cup {ValueTypedTuple(1, items) : items \in SeqsOf({ValueInteger(1)})}
        \cup {ValueOption(None), ValueOption(Some(ValueInteger(1))),
              ValueResult(TRUE, ValueInteger(1)), ValueResult(FALSE, ValueInteger(2)),
              ValueInteger(1)}

InitTuple ==
    \E stack \in UNION {[1..n -> TupleLikes] : n \in 0..2} : InitStack(stack)

\* units of tuple matching
NextTuple ==
    \/ DriverShort
    \/ Inst_MatchTuple
    \/ Inst_TupleIndexGet

SpecTuple == InitTuple /\ [][NextTuple]_vars

\* ------------------------------------------------------------------ claims
ReturnOps == {"Return", "ReturnUnit"}

\* the last iteration of the loop ran instruction op without error
Ran(op) == last.inst.op = op /\ last.err = NoErr

\* the last iteration was a Return/ReturnUnit that popped a call frame
ReturnedToCaller == last.inst.op \in ReturnOps /\ last.err = NoErr /\ last.popped

ReturnValue ==
    IF last.inst.op = "Return" THEN last.pre.stack[Len(last.pre.stack)] ELSE ValueUnit

\* C1: when the Return matching an Immediate Call at index p made with n
\* values on the stack succeeds, ip is p+1, the call frames are those from
\* before the Call and the stack is the caller's n-args lowest values
\* followed by the return value (Unit for ReturnUnit).
C1_ReturnRestoresCaller ==
    ReturnedToCaller =>
        /\ vm.ip = last.snap.p + 1
        /\ vm.call_frames = last.snap.frames
        /\ vm.stack = SubSeq(last.snap.stack, 1, Len(last.snap.stack) - last.snap.args)
                        \o <<ReturnValue>>

\* C2: the stack is never shorter than the frame's stack_top, and an
\* instruction other than Return/ReturnUnit neither lowers stack_top nor
\* touches the values below it.
C2_FrameIsolation ==
    /\ Len(vm.stack) >= vm.stack_top
    /\ (last.inst.op \notin (ReturnOps \cup {"?"}) =>
            /\ vm.stack_top >= last.pre.stack_top
            /\ Len(vm.stack) >= last.pre.stack_top
            /\ SubSeq(vm.stack, 1, last.pre.stack_top)
                 = SubSeq(last.pre.stack, 1, last.pre.stack_top))

\* C3: a Return that succeeds had exactly one value above the frame's
\* stack_top, the return value.
C3_CallFrameBalance ==
    Ran("Return") => Len(last.pre.stack) - last.pre.stack_top = 1

C3_Witness == Ran("Return") /\ last.popped /\ Len(vm.stack) > 1

\* C4: when run_to_completion returns Ok the stack held exactly the return
\* value when exited was set, and it is empty afterwards.
C4_StackBalance ==
    (pc = "idle" /\ h.api = "rtc" /\ ret.kind = "value") =>
        /\ h.lenAtExit = 1
        /\ vm.stack = <<>>
        /\ ret.value = ReturnValue

C4_Witness ==
    pc = "idle" /\ h.api = "rtc" /\ ret.kind = "value" /\ h.n > 2

\* C5: exited is true exactly after a Return/ReturnUnit ran with no call
\* frame left, and a task call made once exited is true runs no instruction
\* and leaves the vm as it is.
C5_Exited ==
    /\ [](vm.exited <=> (last.inst.op \in ReturnOps /\ last.err = NoErr
                          /\ last.pre.call_frames = <<>>))
    /\ [][(vm.exited /\ h.ex0 /\ pc' # "none") => (vm' = vm /\ h'.n = 0)]_vars

C5_Witness ==
    vm.exited /\ h.ex0 /\ h.api = "step" /\ pc = "idle" /\ ret.kind = "err"

\* C6: Task::step on a vm that has not exited runs exactly one instruction
\* before run_for returns, and ip moved by one or by one jump, call or return.
C6_StepOneInstruction ==
    /\ (h.api = "step" => h.n <= 1)
    /\ (pc = "step_ret" /\ ~h.ex0 =>
            /\ h.n = 1
            /\ \/ vm.ip = last.pre.ip + 1
               \/ last.inst.op \in {"Call", "JumpIfBranch"} \cup ReturnOps)

C6_Witness == pc = "step_ret" /\ ~h.ex0 /\ last.inst.op = "Call" /\ vm.ip # last.pre.ip + 1

\* C7: after a Task is dropped, wherever it stopped, ip = 0, the stack and
\* the call frames are empty and exited is false.
C7_DropResets ==
    (pc = "none" /\ h.api = "drop") =>
        /\ vm.ip = 0
        /\ vm.stack = <<>>
        /\ vm.call_frames = <<>>
        /\ ~vm.exited

C7_Witness == pc = "none" /\ h.api = "drop" /\ h.depth0 > 0

\* the future that won the last Select, and where it was on the stack
Winner == last.polled[last.won].id

PopOrderIndex(id) ==
    CHOOSE j \in 0..(last.inst.a - 1) :
        last.pre.stack[Len(last.pre.stack) - j] = ValueFuture(id)

\* C8: a Select that completes with a winner sets branch to the winner's
\* pop-order index among all len popped futures and pushes its value.
C8_SelectWinner ==
    (Ran("Select") /\ last.won > 0) =>
        /\ vm.branch = Some(PopOrderIndex(Winner))
        /\ vm.stack = SubSeq(last.pre.stack, 1, Len(last.pre.stack) - last.inst.a)
                        \o <<FutureOutput(Winner)>>

\* a completed future was popped before the winner
C8_Witness ==
    Ran("Select") /\ last.won > 0 /\ PopOrderIndex(Winner) # last.won - 1

\* C9: a Select whose popped futures are all completed pushes nothing, keeps
\* the branch register and goes on to the next instruction.
C9_SelectNothingToPoll ==
    (Ran("Select") /\ last.polled = <<>>) =>
        /\ vm.branch = last.pre.branch
        /\ vm.stack = SubSeq(last.pre.stack, 1, Len(last.pre.stack) - last.inst.a)
        /\ vm.ip = last.pre.ip + 1

C9_Witness == Ran("Select") /\ last.polled = <<>> /\ vm.branch.some

\* C10: JumpIfBranch{branch,offset} clears the register and moves ip by
\* offset when the register is Some(branch), and otherwise leaves the
\* register and advances ip by one; after one Select at most one jump is taken.
C10_JumpIfBranch ==
    /\ Ran("JumpIfBranch") =>
          IF last.pre.branch = Some(last.inst.a)
          THEN vm.branch = None /\ vm.ip = last.pre.ip + last.inst.b
          ELSE vm.branch = last.pre.branch /\ vm.ip = last.pre.ip + 1
    /\ h.jumps <= 1

C10_Witness ==
    Ran("JumpIfBranch") /\ last.pre.branch = Some(last.inst.a) /\ last.inst.a = 1

\* the last iteration ran an Await on a stack with a Future on top
Awaited ==
    /\ last.inst.op = "Await"
    /\ stack_can_pop(last.pre)
    /\ stack_last(last.pre).t = "Future"

AwaitedId == stack_last(last.pre).n

\* an iteration of the loop on an Await with a Future on top of the stack
AwaitStep ==
    /\ h'.n = h.n + 1
    /\ last'.inst.op = "Await"
    /\ stack_can_pop(vm)
    /\ stack_last(vm).t = "Future"

\* C11: an Await that completes has popped one Future whose cell was not
\* borrowed and pushed exactly that future's result (net stack change 0);
\* when the cell is borrowed elsewhere Await fails with an access error,
\* the future is not polled and no value is pushed.
C11_Await ==
    [][AwaitStep =>
          LET id == stack_last(vm).n
          IN  IF futures[id].borrowed
              THEN /\ last'.err = "AccessError"
                   /\ futures' = futures
                   /\ vm'.stack = stack_pop(vm).stack
              ELSE last'.err = NoErr =>
                   /\ vm'.stack = Append(stack_pop(vm).stack, FutureOutput(id))
                   /\ Len(vm'.stack) = Len(vm.stack)
                   /\ futures'[id].completed
                   /\ ~futures[id].completed]_vars

\* an Await completed while the host held the cell of another future
C11_Witness ==
    /\ Awaited
    /\ last.err = NoErr
    /\ vm.stack[Len(vm.stack)] = FutureOutput(AwaitedId)
    /\ \E id \in DOMAIN futures : futures[id].borrowed

\* the last iteration ran a Call of an Async function of the unit
AsyncCalled ==
    /\ Ran("Call")
    /\ CompilationUnit_lookup(last.inst.a).call = "Async"

\* C12: a Call of an Async function with args arguments removes the top
\* args values of the caller, pushes one Future on a fresh sub-VM whose ip
\* is the function's offset and whose stack is those values in the caller's
\* push order, pushes no call frame and advances the caller's ip by one.
C12_AsyncCall ==
    AsyncCalled =>
        LET args == last.inst.b
            pre == last.pre
            n == Len(pre.stack)
            id == Len(futures)
            sub == futures[id].vm
        IN  /\ n >= args
            /\ vm.stack = Append(SubSeq(pre.stack, 1, n - args), ValueFuture(id))
            /\ sub.stack = SubSeq(pre.stack, n - args + 1, n)
            /\ sub.ip = CompilationUnit_lookup(last.inst.a).offset
            /\ sub.call_frames = <<>> /\ ~sub.exited /\ sub.stack_top = 0
            /\ sub.branch = None
            /\ vm.call_frames = pre.call_frames
            /\ vm.ip = pre.ip + 1

\* two different arguments went to the sub-VM
C12_Witness ==
    /\ AsyncCalled
    /\ last.inst.b = 2
    /\ futures[Len(futures)].vm.stack[1] # futures[Len(futures)].vm.stack[2]

\* C13: a Call whose args differs from the signature of the function its
\* hash resolves to fails with ArgumentCountMismatch and leaves stack, call
\* frames and ip as they were; Vm::call_function makes the same check and
\* returns the error without touching ip or the stack.
C13_ArgumentCountMismatch ==
    /\ (last.inst.op = "Call"
          /\ last.inst.b # CompilationUnit_lookup(last.inst.a).args) =>
            /\ last.err = "ArgumentCountMismatch"
            /\ vm.stack = last.pre.stack
            /\ vm.call_frames = last.pre.call_frames
            /\ vm.ip = last.pre.ip
    /\ (last.inst.op = "call_function" /\ last.inst.a \in DOMAIN UnitFunctions
          /\ last.inst.b # CompilationUnit_lookup(last.inst.a).args) =>
            /\ last.err = "ArgumentCountMismatch"
            /\ (pc = "none" => /\ ret = RetErr("ArgumentCountMismatch")
                               /\ vm.ip = last.pre.ip
                               /\ vm.stack = last.pre.stack)

\* a Call with too few arguments on a stack that holds values
C13_Witness ==
    /\ last.inst.op = "Call"
    /\ last.inst.b < CompilationUnit_lookup(last.inst.a).args
    /\ last.err = "ArgumentCountMismatch"
    /\ vm.stack # <<>>

ArithOps == {"Add", "Sub", "Mul", "Div"}

\* the operands of the last iteration's binary instruction: the value pushed
\* first and the value pushed last
HasOperands == Len(last.pre.stack) - last.pre.stack_top >= 2
OperandA == last.pre.stack[Len(last.pre.stack) - 1]
OperandB == last.pre.stack[Len(last.pre.stack)]
BelowOperands == SubSeq(last.pre.stack, 1, Len(last.pre.stack) - 2)

\* the last instruction pushed x in place of its two operands, or failed
\* with e after it popped them
Pushed(x) == last.err = NoErr /\ vm.stack = Append(BelowOperands, x)
FailedWith(e) == last.err = e /\ vm.stack = BelowOperands

\* C14: on Integers a (pushed first) and b, Add pushes a+b when it is
\* representable and fails with Overflow otherwise, Sub pushes a-b or fails
\* with Underflow, Mul pushes a*b or fails with Overflow, Div by 0 fails
\* with DivideByZero; the value pushed is never a wrapped one.
C14_IntegerArithmetic ==
    (last.inst.op \in ArithOps /\ HasOperands
        /\ OperandA.t = "Integer" /\ OperandB.t = "Integer") =>
        LET a == OperandA.n
            b == OperandB.n
            op == last.inst.op
            exact == CASE op = "Add" -> a + b
                       [] op = "Sub" -> a - b
                       [] op = "Mul" -> a * b
                       [] op = "Div" -> IF b = 0 THEN 0 ELSE TruncDiv(a, b)
            error == CASE op = "Add" -> "Overflow"
                       [] op = "Sub" -> "Underflow"
                       [] op = "Mul" -> "Overflow"
                       [] op = "Div" -> "DivideByZero"
        IN  /\ (op # "Div" =>
                   IF exact \in Int64 THEN Pushed(ValueInteger(exact))
                   ELSE FailedWith(error))
            /\ (op = "Div" /\ b = 0 => FailedWith("DivideByZero"))
            /\ (last.err = NoErr => Pushed(ValueInteger(exact)) /\ exact \in Int64)

\* an Add of two Integers whose sum is above the range
C14_Witness ==
    /\ last.inst.op = "Add" /\ HasOperands
    /\ OperandA.t = "Integer" /\ OperandB.t = "Integer"
    /\ OperandA.n + OperandB.n > IntMax
    /\ last.err = "Overflow"

OrdVariants == {"Char", "Bool", "Integer", "Float"}

\* C15: Gt/Gte/Lt/Lte on a (pushed first) and b push Bool(a op b) when a and
\* b are of the same variant among Char, Bool, Integer, Float, and fail with
\* UnsupportedBinaryOperation on every other pair of variants.
C15_Ordering ==
    (last.inst.op \in OrdOps /\ HasOperands) =>
        IF OperandA.t = OperandB.t /\ OperandA.t \in OrdVariants
        THEN Pushed(ValueBool(Cmp(last.inst.op, OperandA.n, OperandB.n)))
        ELSE last.err = "UnsupportedBinaryOperation"

\* Lt on two Chars pushed in increasing order
C15_Witness ==
    /\ Ran("Lt") /\ HasOperands
    /\ OperandA.t = "Char" /\ OperandB.t = "Char"
    /\ OperandA.n < OperandB.n
    /\ vm.stack[Len(vm.stack)] = ValueBool(TRUE)

Top == vm.stack[Len(vm.stack)]

Primitives == {"Unit", "Bool", "Byte", "Char", "Integer"}

\* C16: Eq on two pushes of one primitive value (Unit, Bool, Byte, Char,
\* Integer) pushes Bool(true).
C16_EqReflexive ==
    (last.inst.op = "Eq" /\ HasOperands
        /\ OperandA.t \in Primitives /\ OperandA.t = OperandB.t
        /\ OperandA.n = OperandB.n) =>
        Pushed(ValueBool(TRUE))

\* what Eq and Neq push on a stack that holds x (pushed first) and y
EqOn(x, y) == stack_last(op_eq([Vm_new EXCEPT !.stack = <<x, y>>]).vm)
NeqOn(x, y) == stack_last(op_neq([Vm_new EXCEPT !.stack = <<x, y>>]).vm)

Negated(b) == IF b = ValueBool(TRUE) THEN ValueBool(FALSE) ELSE ValueBool(TRUE)

\* C17: on every pair of values Neq pushes the negation of what Eq pushes,
\* and Eq pushes the same Bool for the pair in either push order.
C17_NeqNegatesEq ==
    /\ (Ran("Neq") /\ HasOperands) =>
            /\ Pushed(Negated(EqOn(OperandA, OperandB)))
            /\ Pushed(Negated(EqOn(OperandB, OperandA)))
    /\ (Ran("Eq") /\ HasOperands) =>
            /\ Pushed(EqOn(OperandB, OperandA))
            /\ Pushed(Negated(NeqOn(OperandA, OperandB)))

\* Neq on two equal objects whose keys were inserted in different orders
C17_Witness ==
    /\ Ran("Neq") /\ HasOperands
    /\ OperandA.t = "Object" /\ OperandB.t = "Object"
    /\ Len(OperandA.entries) = 2 /\ Len(OperandB.entries) = 2
    /\ OperandA.entries[1].key # OperandB.entries[1].key
    /\ Top = ValueBool(FALSE)

\* C18: Eq on two Tuples pushes true when they have the same length and
\* pairwise equal elements, and false when the lengths differ or some pair
\* of elements is unequal.
C18_TupleEq ==
    (Ran("Eq") /\ HasOperands /\ OperandA.t = "Tuple" /\ OperandB.t = "Tuple") =>
        Pushed(ValueBool(
            /\ Len(OperandA.items) = Len(OperandB.items)
            /\ \A i \in 1..Len(OperandA.items) :
                  EqOn(OperandA.items[i], OperandB.items[i]) = ValueBool(TRUE)))

\* C19: Eq on a String that holds the text of an interned string and the
\* StaticString of that string pushes true in both operand orders; Eq on two
\* StaticStrings pushes whether their handles are the same.
C19_StringEq ==
    (Ran("Eq") /\ HasOperands) =>
        /\ (OperandA.t = "String" /\ OperandB.t = "StaticString"
              /\ OperandA.text = lookup_string(OperandB.n)) => Pushed(ValueBool(TRUE))
        /\ (OperandA.t = "StaticString" /\ OperandB.t = "String"
              /\ OperandB.text = lookup_string(OperandA.n)) => Pushed(ValueBool(TRUE))
        /\ (OperandA.t = "StaticString" /\ OperandB.t = "StaticString") =>
              Pushed(ValueBool(OperandA.n = OperandB.n))

\* Eq on the StaticString of "ab" and a String that holds "ab"
C19_Witness ==
    /\ Ran("Eq") /\ HasOperands
    /\ OperandA = ValueStaticString(2)
    /\ OperandB = ValueString(<<"a", "b">>)
    /\ Top = ValueBool(TRUE)

\* the keys of the Object instruction of the last iteration, and the values
\* below them on the stack
ObjectKeys == lookup_object_keys(last.inst.a)
BelowValues(n) == SubSeq(last.pre.stack, 1, Len(last.pre.stack) - n)

\* C20: Object{slot} on the key tuple [k1..kn] pops exactly n values and
\* pushes an Object whose i-th entry is ki with the i-th popped value, in the
\* order of the key tuple; a slot without key tuple fails with
\* MissingStaticObjectKeys and pops nothing.
C20_Object ==
    last.inst.op = "Object" =>
        IF lookup_object_keys_ok(last.inst.a)
        THEN last.err = NoErr =>
               LET n == Len(ObjectKeys)
                   m == Len(last.pre.stack)
               IN  /\ m >= n
                   /\ vm.stack = Append(BelowValues(n),
                         ValueObject([i \in 1..n |->
                            [key |-> ObjectKeys[i], value |-> last.pre.stack[m + 1 - i]]]))
        ELSE last.err = "MissingStaticObjectKeys" /\ vm.stack = last.pre.stack

\* keys ["a", "b"] on [Integer 2, Integer 1] gave a = 1, b = 2
C20_Witness ==
    /\ Ran("Object")
    /\ last.pre.stack = <<ValueInteger(2), ValueInteger(1)>>
    /\ vm.stack = <<ValueObject(<<[key |-> <<"a">>, value |-> ValueInteger(1)],
                                   [key |-> <<"b">>, value |-> ValueInteger(2)]>>)>>

\* C21: Vec{count} and Tuple{count} pop count values and push one sequence of
\* them in which index 0 is the value popped last, the deepest of the count
\* values (net stack change 1 - count).
C21_VecOrder ==
    (last.inst.op \in {"Vec", "Tuple"} /\ last.err = NoErr) =>
        LET count == last.inst.a
            m == Len(last.pre.stack)
            items == [i \in 1..count |-> last.pre.stack[m - count + i]]
        IN  /\ m >= count
            /\ vm.stack = Append(BelowValues(count),
                    IF last.inst.op = "Vec" THEN ValueVec(items) ELSE ValueTuple(items))

\* the call on the indexer that was made last, the levels before it and the
\* innermost of them
IxOp == done.op
Pre == done.pre
PreTop == Pre[Len(Pre)]

\* how often captures names v
CountOf(captures, v) == Cardinality({i \in DOMAIN captures : captures[i] = v})

\* the greatest of the positions S
Innermost(S) == CHOOSE i \in S : \A j \in S : j <= i

\* C22: mark_use(v), with v declared in a level and the two levels above it
\* closures that do not declare v, leaves exactly one capture entry for v in
\* each of the two closures, on the first call and on every repetition.
C22_CaptureOnce ==
    (IxOp = "mark_use" /\ Len(Pre) >= 3) =>
        LET n == Len(Pre)
            v == done.arg
        IN  (/\ Pre[n].kind = "IndexClosure" /\ v \notin Pre[n].locals
             /\ Pre[n - 1].kind = "IndexClosure" /\ v \notin Pre[n - 1].locals
             /\ v \in Pre[n - 2].locals) =>
                /\ CountOf(levels[n].captures, v) = 1
                /\ CountOf(levels[n - 1].captures, v) = 1

\* a repeated mark_use("x") on two closures that already captured x
C22_Witness ==
    /\ IxOp = "mark_use" /\ done.arg = "x" /\ Len(Pre) = 3
    /\ "x" \in Pre[1].locals
    /\ Pre[2].kind = "IndexClosure" /\ Pre[2].captures = <<"x">> /\ Pre[2].locals = {}
    /\ Pre[3].kind = "IndexClosure" /\ Pre[3].captures = <<"x">> /\ Pre[3].locals = {}
    /\ levels = Pre

\* the levels mark_use may look at: from the innermost Function level inward
InFunction(ls) ==
    LET F == {i \in DOMAIN ls : ls[i].kind = "IndexFunction"}
    IN  (IF F = {} THEN 1 ELSE Innermost(F))..Len(ls)

\* C23: mark_use(v) changes nothing when v is declared in no level from the
\* innermost Function level inward; otherwise every closure above the
\* innermost such declaration holds v exactly once afterwards (appended if it
\* was not there), and no other level changes.
C23_FunctionBoundary ==
    IxOp = "mark_use" =>
        LET v == done.arg
            D == {i \in InFunction(Pre) : v \in Pre[i].locals}
        IN  /\ DOMAIN levels = DOMAIN Pre
            /\ IF D = {} THEN levels = Pre
               ELSE \A i \in DOMAIN Pre :
                      IF i > Innermost(D) /\ Pre[i].kind = "IndexClosure"
                      THEN /\ CountOf(levels[i].captures, v) = 1
                           /\ levels[i].captures
                                \in {Pre[i].captures, Append(Pre[i].captures, v)}
                           /\ levels[i] = [Pre[i] EXCEPT
                                             !.captures = levels[i].captures,
                                             !.existing = @ \cup {v}]
                      ELSE levels[i] = Pre[i]

\* a name declared outside the Function was used in a closure inside it, and
\* a name declared in the Function was captured by that closure
C23_Witness ==
    /\ IxOp = "mark_use" /\ done.arg = "x" /\ Len(Pre) = 3
    /\ Pre[1].locals = {"x"}
    /\ Pre[2].kind = "IndexFunction" /\ Pre[2].locals = {"y"}
    /\ Pre[3].kind = "IndexClosure" /\ Pre[3].captures = <<"y">>
    /\ levels = Pre

\* C24: mark_yield sets the generator flag of the innermost Function or
\* Closure level and changes nothing else; without such a level it fails with
\* YieldOutsideFunction and changes nothing.  into_function on a Function
\* level returns the flag of that level.
C24_MarkYield ==
    /\ IxOp = "mark_yield" =>
          LET G == {i \in DOMAIN Pre : Pre[i].kind \in {"IndexFunction", "IndexClosure"}}
          IN  IF G = {}
              THEN done.r.err = "YieldOutsideFunction" /\ levels = Pre
              ELSE /\ done.r.err = NoErr
                   /\ levels = [Pre EXCEPT ![Innermost(G)].generator = TRUE]
    /\ (IxOp = "into_function" /\ PreTop.kind = "IndexFunction") =>
          /\ done.r.err = NoErr
          /\ done.r.generator = PreTop.generator

\* into_function returned generator = true: a mark_yield had marked the
\* Function level
C24_Witness ==
    /\ IxOp = "into_function" /\ done.r.err = NoErr /\ done.r.generator
    /\ Len(levels) = 1

\* C25: dropping a guard, into_closure and into_function each pop exactly the
\* innermost level and use up one guard, also when into_closure or
\* into_function fails on a level of another kind.
C25_GuardPopsOne ==
    /\ Len(levels) = guards + 1
    /\ IxOp \in {"drop", "into_closure", "into_function"} =>
          /\ Len(Pre) >= 1
          /\ levels = SubSeq(Pre, 1, Len(Pre) - 1)
          /\ guards = done.guards - 1
          /\ done.r.err \in {NoErr, "expected closure", "expected function"}

\* into_closure failed on a Function level and popped it
C25_Witness ==
    /\ IxOp = "into_closure" /\ done.r.err = "expected closure"
    /\ PreTop.kind = "IndexFunction"
    /\ Len(levels) = Len(Pre) - 1

\* C26 as stated: into_closure on a Closure level returns its captures and
\* its generator flag, and no name declared in the closure is among them.
C26_NoLocalCaptured ==
    (IxOp = "into_closure" /\ PreTop.kind = "IndexClosure") =>
        /\ done.r.err = NoErr
        /\ done.r.captures = PreTop.captures
        /\ done.r.generator = PreTop.generator
        /\ \A i \in DOMAIN done.r.captures : done.r.captures[i] \notin PreTop.locals

\* C26 amended: into_closure on a Closure level returns its captures and its
\* generator flag; the captures are the names in order of their first use:
\* a mark_use(v) appends v to them, or leaves them, and it leaves them when the
\* closure declared v before or captured v before; no other call changes the
\* captures of a level.
C26_Captures ==
    /\ (IxOp = "into_closure" /\ PreTop.kind = "IndexClosure") =>
          /\ done.r.err = NoErr
          /\ done.r.captures = PreTop.captures
          /\ done.r.generator = PreTop.generator
    /\ (IxOp = "mark_use" /\ PreTop.kind = "IndexClosure") =>
          LET n == Len(Pre)
              v == done.arg
          IN  /\ levels[n].captures \in {Pre[n].captures, Append(Pre[n].captures, v)}
              /\ (v \in Pre[n].locals \/ CountOf(Pre[n].captures, v) > 0) =>
                    levels[n].captures = Pre[n].captures
    /\ (IxOp \notin {"", "mark_use"}) =>
          \A i \in (DOMAIN levels) \cap (DOMAIN Pre) :
              levels[i].captures = Pre[i].captures

\* push_function; declare x; push_closure; mark_use x; into_closure gave
\* captures = [x] and generator = false
C26_Witness ==
    /\ IxOp = "into_closure" /\ done.r.err = NoErr
    /\ done.r.captures = <<"x">> /\ ~done.r.generator
    /\ Len(Pre) = 3
    /\ Pre[2].kind = "IndexFunction" /\ Pre[2].locals = {"x"}
    /\ Pre[3].locals = {}

\* the last call was a call on the stream; its execution before the call
StreamOps == {"resume", "next"}
Live == done.pre.execution.some
PreStack == done.pre.execution.v.vm.stack

\* C27: a call of next() after which the stream has no execution (the call
\* that saw the completion and every call after it) returned Ok(None).
C27_NextAfterCompletion ==
    (done.op = "next" /\ ~stream.execution.some) =>
        /\ done.r.err = NoErr
        /\ ~done.r.value.some

\* C28: a resume on a stream without execution fails with GeneratorComplete
\* and changes nothing; a resume on a stream with an execution takes the
\* execution away when it returns Complete and keeps it when it returns
\* Yielded or an error; a stream has no execution only after such a Complete.
C28_ExecutionUntilComplete ==
    /\ done.op \in StreamOps =>
          IF Live
          THEN stream.execution.some
                  = ~(done.r.err = NoErr /\ done.r.state.kind = "Complete")
          ELSE done.r.err = "GeneratorComplete" /\ stream = done.pre
    /\ ~stream.execution.some => done.op \in StreamOps

\* a resume on a complete stream
C28_Witness ==
    /\ done.op = "resume" /\ ~Live
    /\ done.arg = ValueInteger(1)
    /\ done.r.err = "GeneratorComplete"

\* C29: the first resume of a stream resumes the execution on its stack as it
\* is, every later resume of a stream with an execution on that stack with
\* the caller's value pushed; first is true until the first resume of the
\* stream and false from then on.
C29_ResumeFeeds ==
    /\ (done.op \in StreamOps /\ Live) =>
          /\ done.r.stack = IF done.pre.first THEN PreStack
                            ELSE Append(PreStack, done.arg)
          /\ ~stream.first
    /\ stream.first <=> done.op \notin StreamOps
    /\ (done.op \in StreamOps /\ done.pre.first) => (Live /\ PreStack = <<>>)

\* a second resume pushed the Integer 1 it was given
C29_Witness ==
    /\ done.op = "resume" /\ Live /\ ~done.pre.first
    /\ done.arg = ValueInteger(1)
    /\ PreStack = <<>>
    /\ done.r.stack = <<ValueInteger(1)>>

\* C30: an iteration of the instruction loop whose instruction fails ends the
\* run_for it is part of, and the step or run_to_completion that called it,
\* with that error: the task is idle again with the error as its result, ip
\* is where the failing instruction was fetched, and exited is false.
C30_ErrorPropagation ==
    [][(fetched' # fetched /\ last'.err # NoErr) =>
          /\ InLoop
          /\ last'.pre = vm
          /\ pc' = "idle"
          /\ ret' = RetErr(last'.err)
          /\ vm'.ip = vm.ip
          /\ ~vm'.exited]_vars

\* run_to_completion returned the StackError of its second instruction
C30_Witness ==
    /\ h.api = "rtc" /\ h.n = 2
    /\ pc = "idle"
    /\ last.err = "StackError"
    /\ ret = RetErr("StackError")
    /\ vm.ip = last.pre.ip

\* C31: when a Select has finished, with a winner, with nothing to poll or
\* with an error, no future cell is borrowed: the guards it took on the
\* futures it polled are released before any further instruction runs.
C31_SelectReleases ==
    last.inst.op = "Select" =>
        \A id \in DOMAIN futures : ~futures[id].borrowed

\* a Select that polled two futures ended with the error of one of them
C31_Witness ==
    /\ last.inst.op = "Select" /\ last.err = "FutureError"
    /\ Len(last.polled) >= 2
    /\ \A i \in 1..Len(last.polled) : ~futures[last.polled[i].id].borrowed

\* the stack before the last instruction without its n topmost values
PreBelow(n) == SubSeq(last.pre.stack, 1, Len(last.pre.stack) - n)
PreCondition == last.pre.stack[Len(last.pre.stack)]

\* C32: PopAndJumpIf{count, offset} on a Bool condition pops it; when it is
\* true it pops count further values and moves ip by offset, when it is false
\* it pops nothing else and ip advances by one.  PopAndJumpIfNot does the
\* same with true and false exchanged.  A condition that is no Bool is an
\* error.
C32_PopAndJumpIf ==
    (last.inst.op \in {"PopAndJumpIf", "PopAndJumpIfNot"} /\ last.pre.stack # <<>>) =>
        IF PreCondition.t # "Bool" THEN last.err # NoErr
        ELSE IF (PreCondition.n = 1) = (last.inst.op = "PopAndJumpIf")
        THEN IF last.err = NoErr
             THEN /\ vm.stack = PreBelow(1 + last.inst.a)
                  /\ vm.ip = last.pre.ip + last.inst.b
             ELSE Len(vm.stack) < Len(last.pre.stack)
        ELSE /\ last.err = NoErr
             /\ vm.stack = PreBelow(1)
             /\ vm.ip = last.pre.ip + 1

\* PopAndJumpIfNot{1, 3} on a false condition popped two values and jumped
C32_Witness ==
    /\ Ran("PopAndJumpIfNot") /\ last.inst.a = 1 /\ last.inst.b = 3
    /\ PreCondition = ValueBool(FALSE)
    /\ Len(vm.stack) = Len(last.pre.stack) - 2
    /\ vm.ip = last.pre.ip + 3

AssignOps == {"AddAssign", "SubAssign", "MulAssign", "DivAssign"}

\* the position, in the stack left by the pop of the operand, of the slot an
\* assigning instruction names
PreSlot == Len(last.pre.stack) - 1 - last.inst.a

\* the exact result of the last assigning instruction on the integers x and y
\* (a division by zero has none)
AssignExact(x, y) ==
    CASE last.inst.op = "AddAssign" -> Some(x + y)
      [] last.inst.op = "SubAssign" -> Some(x - y)
      [] last.inst.op = "MulAssign" -> Some(x * y)
      [] OTHER -> IF y = 0 THEN None ELSE Some(TruncDiv(x, y))

\* C33: AddAssign/SubAssign/MulAssign/DivAssign{offset} on an Integer operand
\* and an Integer slot pop the operand and replace the slot at offset from the
\* new top with (slot op operand): the stack is one shorter and every other
\* slot is as before.  When the checked operation fails the instruction ends
\* with Overflow, Underflow or DivideByZero and the slot keeps its value.
C33_AssignOps ==
    (/\ last.inst.op \in AssignOps
     /\ PreSlot >= 1
     /\ PreCondition.t = "Integer"
     /\ last.pre.stack[PreSlot].t = "Integer") =>
        LET e == AssignExact(last.pre.stack[PreSlot].n, PreCondition.n)
        IN  IF e.some /\ e.v \in Int64
            THEN /\ last.err = NoErr
                 /\ vm.stack = [PreBelow(1) EXCEPT ![PreSlot] = ValueInteger(e.v)]
            ELSE /\ last.err \in {"Overflow", "Underflow", "DivideByZero"}
                 /\ vm.stack = PreBelow(1)

\* SubAssign{1} took the operand 1 from the slot below a Unit, which stayed
C33_Witness ==
    /\ Ran("SubAssign") /\ last.inst.a = 1
    /\ last.pre.stack = <<ValueInteger(IntMax), ValueUnit, ValueInteger(1)>>
    /\ vm.stack = <<ValueInteger(IntMax - 1), ValueUnit>>

KeysOf(entries) == [i \in 1..Len(entries) |-> entries[i].key]

\* the target, the key and the value of the first IndexSet of a unit
IndexSetFirst == last.inst.op = "IndexSet" /\ fetched = {0} /\ Len(last.pre.stack) >= 3
PreTarget == last.pre.stack[Len(last.pre.stack)]
PreKey == index_set_key(last.pre.stack[Len(last.pre.stack) - 1])
PreValue == last.pre.stack[Len(last.pre.stack) - 2]

\* C34: the keys of a TypedObject are at all times the keys it was built
\* with.  IndexSet with a String/StaticString key on a TypedObject overwrites
\* the value of a field that exists and fails with MissingStructField,
\* leaving the object as it was, when the field does not exist; on a plain
\* Object it overwrites the value of a key that exists and appends a key that
\* does not.
C34_TypedObjectKeys ==
    /\ \A id \in DOMAIN futures :
           futures[id].t = "TypedObject"
               => KeysOf(futures[id].object) = KeysOf(futures[id].built)
    /\ (IndexSetFirst /\ PreTarget.t \in {"Object", "TypedObject"} /\ PreKey.some) =>
           LET cell == futures[PreTarget.id]
               i == object_find(cell.built, PreKey.v)
           IN  IF i # 0
               THEN /\ last.err = NoErr
                    /\ cell.object = [cell.built EXCEPT ![i].value = PreValue]
               ELSE IF PreTarget.t = "TypedObject"
               THEN /\ last.err = "MissingStructField"
                    /\ cell.object = cell.built
               ELSE /\ last.err = NoErr
                    /\ cell.object =
                           Append(cell.built, [key |-> PreKey.v, value |-> PreValue])

\* an IndexSet with the key "b" failed on a TypedObject that has the field "a"
\* only, after an IndexSet that overwrote "a"
C34_Witness ==
    /\ last.inst.op = "IndexSet" /\ last.err = "MissingStructField"
    /\ fetched = {0, 1}
    /\ futures[1].built = <<[key |-> <<"a">>, value |-> ValueInteger(1)]>>
    /\ futures[1].object = <<[key |-> <<"a">>, value |-> ValueInteger(3)]>>

\* C35: MatchTuple{tuple_like: true, len, exact} takes Option::None as a tuple
\* of no element and Option::Some, Result::Ok and Result::Err as tuples of one
\* element (with len 0 and exact it pushes true on None and false on Some);
\* MatchTuple with tuple_like false pushes false, without an error, on every
\* Option, Result and TypedTuple; TupleIndexGet{index} on None fails with
\* TupleIndexMissing for every index.
C35_TupleLike ==
    (last.inst.op \in {"MatchTuple", "TupleIndexGet"} /\ last.pre.stack # <<>>
        /\ PreCondition.t \in {"Option", "Result", "TypedTuple"}) =>
        LET arity == IF PreCondition.t = "Option" /\ ~PreCondition.o.some THEN 0 ELSE 1
        IN  IF last.inst.op = "TupleIndexGet"
            THEN (PreCondition = ValueOption(None)) => last.err = "TupleIndexMissing"
            ELSE /\ last.err = NoErr
                 /\ vm.stack =
                        Append(PreBelow(1),
                               ValueBool(/\ last.inst.b.tuple_like
                                         /\ IF PreCondition.t = "TypedTuple"
                                            THEN IF last.inst.b.exact
                                                 THEN Len(PreCondition.items) = last.inst.a
                                                 ELSE Len(PreCondition.items) >= last.inst.a
                                            ELSE IF last.inst.b.exact
                                                 THEN arity = last.inst.a
                                                 ELSE arity >= last.inst.a))

\* MatchTuple{tuple_like: true, len: 0, exact: true} pushed true on None
C35_Witness ==
    /\ Ran("MatchTuple") /\ last.inst.a = 0
    /\ last.inst.b = [tuple_like |-> TRUE, exact |-> TRUE]
    /\ PreCondition = ValueOption(None)
    /\ vm.stack = Append(PreBelow(1), ValueBool(TRUE))

\* C36: a task starts with the branch register at None, also on a vm whose
\* earlier task was dropped after a Select: in the state a task is obtained
\* in, before it ran any instruction, vm.branch is None.
C36_BranchFresh ==
    (pc = "idle" /\ h.n = 0 /\ ret = NoRet) => vm.branch = None

\* C37: the indexer has at all times one level more than there are guards
\* alive, and its outermost level is the root scope; no call fails with
\* "empty scopes" or "missing scope", and the assertion of the guard's drop
\* that a level was there to pop never fails.
C37_Depth ==
    /\ Len(levels) = 1 + guards
    /\ levels[1].kind = "IndexScope"
    /\ done.r.err \notin {"empty scopes", "missing scope", "debug_assert"}

\* the last guard alive was dropped and the root scope, with a local, is left
C37_Witness ==
    /\ IxOp = "drop" /\ done.r.err = NoErr /\ done.guards = 1
    /\ guards = 0
    /\ levels = <<[IndexScopeLevel("IndexScope") EXCEPT !.locals = {"x"}]>>

\* C38: the captures of every Closure level hold no name twice and hold
\* exactly the names of its `existing` set; a mark_use that records a capture
\* in a closure finds the name absent from that closure's `existing` set, so
\* the assertion that the insertion is new never fails.
C38_CapturesExisting ==
    /\ \A i \in DOMAIN levels :
           levels[i].kind = "IndexClosure" =>
               /\ \A v \in Names : CountOf(levels[i].captures, v) <= 1
               /\ {levels[i].captures[j] : j \in DOMAIN levels[i].captures}
                      = levels[i].existing
    /\ IxOp = "mark_use" =>
           \A i \in DOMAIN Pre :
               levels[i].captures # Pre[i].captures => done.arg \notin Pre[i].existing

\* a closure inside a closure captured y after x; the outer one captured both
C38_Witness ==
    /\ IxOp = "mark_use" /\ done.arg = "y" /\ Len(levels) = 3
    /\ levels[2].kind = "IndexClosure" /\ levels[2].captures = <<"x", "y">>
    /\ levels[3].kind = "IndexClosure" /\ levels[3].captures = <<"x", "y">>
    /\ Pre[3].captures = <<"x">>

\* the position of the dividend of the last Div or DivAssign in the stack
\* before it
DividendSlot == IF last.inst.op = "Div" THEN Len(last.pre.stack) - 1 ELSE PreSlot

\* C39: Div and DivAssign on Integers fail with DivideByZero exactly when the
\* divisor is 0; with any other divisor they give the truncated quotient of
\* the dividend by it (Div pushes it, DivAssign stores it in the slot).
C39_DivideByZero ==
    (/\ last.inst.op \in {"Div", "DivAssign"}
     /\ DividendSlot >= 1
     /\ PreCondition.t = "Integer"
     /\ last.pre.stack[DividendSlot].t = "Integer") =>
        LET a == last.pre.stack[DividendSlot].n
            b == PreCondition.n
        IN  /\ (last.err = "DivideByZero") <=> (b = 0)
            /\ b # 0 =>
                  /\ last.err = NoErr
                  /\ vm.stack =
                        IF last.inst.op = "Div"
                        THEN Append(PreBelow(2), ValueInteger(TruncDiv(a, b)))
                        ELSE [PreBelow(1) EXCEPT ![PreSlot] = ValueInteger(TruncDiv(a, b))]

\* a call of Task::step has returned
Stepped == pc = "idle" /\ h.api = "step"

\* C40: Task::step returns Some(value) only on the step that ran the
\* outermost Return/ReturnUnit, with the value that instruction left, which
\* it takes off the stack; a successful step before it returns None; a step
\* made once the vm has exited runs no instruction and fails with a stack
\* error instead of returning the value again.
C40_StepReturnsOnce ==
    /\ (Stepped /\ ret.kind = "value") =>
           /\ ~h.ex0 /\ h.n = 1
           /\ last.inst.op \in ReturnOps /\ last.err = NoErr
           /\ last.pre.call_frames = <<>>
           /\ ret.value = ReturnValue
           /\ vm.exited /\ vm.stack = <<>>
    /\ (Stepped /\ ret.kind = "ok_none") => (~vm.exited /\ ~h.ex0 /\ h.n = 1)
    /\ (Stepped /\ h.ex0) => (h.n = 0 /\ ret = RetErr("StackError"))

\* the step that ran the outermost Return gave the Integer it returned, after
\* a step that gave None
C40_Witness ==
    /\ Stepped /\ ret = RetValue(ValueInteger(1))
    /\ last.inst.op = "Return" /\ last.pre.ip > 0
    /\ vm.exited /\ vm.stack = <<>>

====
